---------------------------- MODULE Spec2Model ----------------------------
(***************************************************************************)
(* A model of the analytical core of finops-analyzer:                      *)
(*   stock_fetcher.py  analyze_stock, _calculate_rsi, _assess_risk,        *)
(*                     enrich_holding                                      *)
(*   models.py         StockHolding and Portfolio with their computed      *)
(*                     fields, NewsArticle, StockAnalysis,                 *)
(*                     PortfolioAnalysis                                   *)
(*   analyzer.py       analyze_portfolio, load_portfolio_from_csv,         *)
(*                     load_portfolio_from_symbols                         *)
(*   sentiment.py      analyze_sentiment, generate_portfolio_insights,     *)
(*                     fetch_news                                          *)
(*   dashboard.py      create_holdings_table, create_analysis_table        *)
(*   cli.py            analyze                                             *)
(*                                                                         *)
(* Numbers.  The code computes in IEEE-754 doubles (numpy float64) and in  *)
(* decimal.Decimal.  A number is modelled as a record [k, n, d]:           *)
(*   k = "none"  Python None                                               *)
(*   k = "nan"   float NaN                                                 *)
(*   k = "pinf"  +infinity          k = "ninf"  -infinity                  *)
(*   k = "fin"   the exact rational n/d, d > 0, in lowest terms            *)
(*   k = "sqrt"  the non-negative square root of the rational n/d          *)
(* Finite arithmetic is exact (rounding error of the doubles and the sign  *)
(* of a zero are not modelled); division by zero, infinities and NaN       *)
(* follow IEEE-754 as numpy applies it (no exception is raised).           *)
(***************************************************************************)
EXTENDS Integers, Sequences, FiniteSets, TLC

VARIABLES
    pc,        \* position of the operation under study
    symbol,    \* the ticker symbol passed to analyze_stock
    history,   \* outcome of fetch_history: [status, close]
    analysis,  \* the StockAnalysis being built / returned
    other,     \* a second StockAnalysis handed to _assess_risk
    holding,   \* a StockHolding
    quote,     \* outcome of fetch_stock_info: [status, currentPrice, regularMarketPrice, sector]
    portfolio, \* Portfolio.holdings, a sequence of StockHolding
    report,    \* the computed fields and allocations read off the Portfolio
    pa,        \* the PortfolioAnalysis built by analyze_portfolio
    run,       \* arguments and locals of analyze_portfolio
    calls,     \* the calls analyze_portfolio has made, in order
    articles,  \* the list of NewsArticle handed to analyze_sentiment
    response,  \* what the AI service answered
    sentiment, \* what analyze_sentiment returned besides the list
    rows,      \* the input handed to a portfolio loader
    table,     \* the rows display_full_report renders
    document,  \* the JSON document the analyze command saves
    cache      \* the NewsFetcher: [newsapi_key, enabled, items], items the dict
               \* of the news cache

stockVars == <<symbol, history, analysis, other, holding, quote>>
portfolioVars == <<portfolio, report, pa, run, calls, articles, response, sentiment>>

ioVars == <<rows, table, document, cache>>

vars == <<pc, stockVars, portfolioVars, ioVars>>

---------------------------------------------------------------------------
(* Exact numbers with the IEEE-754 special values                          *)

None == [k |-> "none", n |-> 0, d |-> 1]
NaN  == [k |-> "nan",  n |-> 0, d |-> 1]
PInf == [k |-> "pinf", n |-> 0, d |-> 1]
NInf == [k |-> "ninf", n |-> 0, d |-> 1]

Abs(x) == IF x < 0 THEN -x ELSE x

RECURSIVE GCD(_, _)
GCD(a, b) == IF b = 0 THEN a ELSE GCD(b, a % b)

\* the rational n/d (d # 0) in lowest terms with a positive denominator
Fin(n, d) ==
    LET g == GCD(Abs(n), Abs(d))
        s == IF d < 0 THEN -1 ELSE 1
    IN  [k |-> "fin", n |-> (s * n) \div g, d |-> (s * d) \div g]

Num(i) == [k |-> "fin", n |-> i, d |-> 1]

\* the non-negative square root of the finite non-negative number x
Sqrt(x) == [k |-> "sqrt", n |-> x.n, d |-> x.d]

IsFin(x) == x.k = "fin"
IsInf(x) == x.k \in {"pinf", "ninf"}
Sign(x) ==
    CASE x.k = "pinf" -> 1
      [] x.k = "ninf" -> -1
      [] x.k \in {"fin", "sqrt"} -> (IF x.n > 0 THEN 1 ELSE IF x.n < 0 THEN -1 ELSE 0)
      [] OTHER -> 0

FNeg(x) ==
    CASE x.k = "fin"  -> [x EXCEPT !.n = -x.n]
      [] x.k = "pinf" -> NInf
      [] x.k = "ninf" -> PInf
      [] OTHER -> x

FAdd(x, y) ==
    CASE x.k = "nan" \/ y.k = "nan" -> NaN
      [] IsInf(x) /\ IsInf(y) -> IF x.k = y.k THEN x ELSE NaN
      [] IsInf(x) -> x
      [] IsInf(y) -> y
      [] OTHER ->
           LET g == GCD(x.d, y.d)
               l == (x.d \div g) * y.d
           IN  Fin(x.n * (l \div x.d) + y.n * (l \div y.d), l)

FSub(x, y) == FAdd(x, FNeg(y))

FMul(x, y) ==
    CASE x.k = "nan" \/ y.k = "nan" -> NaN
      [] IsInf(x) \/ IsInf(y) ->
           IF Sign(x) * Sign(y) = 0 THEN NaN
           ELSE IF Sign(x) * Sign(y) > 0 THEN PInf ELSE NInf
      [] OTHER ->
           LET g1 == GCD(Abs(x.n), y.d)
               g2 == GCD(Abs(y.n), x.d)
           IN  Fin((x.n \div g1) * (y.n \div g2), (x.d \div g2) * (y.d \div g1))

FDiv(x, y) ==
    CASE x.k = "nan" \/ y.k = "nan" -> NaN
      [] IsInf(x) /\ IsInf(y) -> NaN
      [] IsInf(y) -> Num(0)
      [] IsInf(x) -> IF Sign(y) < 0 THEN FNeg(x) ELSE x
      [] y.n = 0 -> IF x.n = 0 THEN NaN ELSE IF x.n > 0 THEN PInf ELSE NInf
      [] OTHER -> FMul(x, Fin(y.d, y.n))

\* a/b < c/d for naturals a, c and positive b, d, by continued fractions
\* (no product is formed)
RECURSIVE FracLt(_, _, _, _)
FracLt(a, b, c, d) ==
    LET q1 == a \div b
        q2 == c \div d
        r1 == a % b
        r2 == c % d
    IN  IF q1 # q2 THEN q1 < q2
        ELSE IF r2 = 0 THEN FALSE
        ELSE IF r1 = 0 THEN TRUE
        ELSE FracLt(d, r2, b, r1)

RatLt(x, y) ==
    IF x.n < 0
    THEN (y.n >= 0 \/ FracLt(-y.n, y.d, -x.n, x.d))
    ELSE (y.n > 0 /\ FracLt(x.n, x.d, y.n, y.d))

\* x < y as the float comparison: any comparison with NaN is false.
\* A "sqrt" number is compared with a finite one through its square.
FLt(x, y) ==
    CASE x.k = "nan" \/ y.k = "nan" -> FALSE
      [] x.k = "pinf" \/ y.k = "ninf" -> FALSE
      [] x.k = "ninf" \/ y.k = "pinf" -> TRUE
      [] x.k = "sqrt" /\ y.k = "fin" ->
           y.n > 0 /\ RatLt(Fin(x.n, x.d), FMul(y, y))
      [] x.k = "fin" /\ y.k = "sqrt" ->
           x.n < 0 \/ RatLt(FMul(x, x), Fin(y.n, y.d))
      [] OTHER -> RatLt(x, y)

FGt(x, y) == FLt(y, x)

\* Python truth value of an Optional[float] / Optional[Decimal]:
\* None and zero are falsy, everything else (NaN included) is truthy
Truthy(x) ==
    CASE x.k = "none" -> FALSE
      [] x.k \in {"fin", "sqrt"} -> x.n # 0
      [] OTHER -> TRUE

---------------------------------------------------------------------------
(* pandas helpers.  A price series (history["Close"]) is a sequence of     *)
(* integers, oldest first; a derived series is a sequence of numbers.      *)

\* Series.iloc[-k]
iloc(s, k) == s[Len(s) + 1 - k]

\* Series.tail(n)
tail(s, n) == IF Len(s) <= n THEN s ELSE SubSeq(s, Len(s) - n + 1, Len(s))

\* Series.dropna(): NaN entries are removed, infinities are kept
dropna(s) == LET NotNaN(x) == x.k # "nan" IN SelectSeq(s, NotNaN)

\* Series.pct_change(): p[i] / p[i-1] - 1, the first entry NaN
pct_change(s) ==
    [i \in 1..Len(s) |->
        IF i = 1 THEN NaN ELSE FSub(FDiv(Num(s[i]), Num(s[i - 1])), Num(1))]

\* Series.diff(): p[i] - p[i-1], the first entry NaN
diff(s) ==
    [i \in 1..Len(s) |-> IF i = 1 THEN NaN ELSE Num(s[i] - s[i - 1])]

\* s[lo] + ... + s[hi], summed by halves (exact, so the order is immaterial)
RECURSIVE SumRange(_, _, _)
SumRange(s, lo, hi) ==
    IF lo > hi THEN Num(0)
    ELSE IF lo = hi THEN s[lo]
    ELSE LET mid == (lo + hi) \div 2
         IN  FAdd(SumRange(s, lo, mid), SumRange(s, mid + 1, hi))

\* Series.mean() of a series without NaN
mean(s) == IF Len(s) = 0 THEN NaN ELSE FDiv(SumRange(s, 1, Len(s)), Num(Len(s)))

\* Series.std() (ddof = 1, pandas nanops.nanvar): NaN for fewer than two
\* values, else sqrt( sum (x - mean)^2 / (n - 1) )
std(s) ==
    IF Len(s) <= 1 THEN NaN
    ELSE LET m   == mean(s)
             sq  == [i \in 1..Len(s) |-> FMul(FSub(s[i], m), FSub(s[i], m))]
             var == FDiv(SumRange(sq, 1, Len(sq)), Num(Len(s) - 1))
         IN  IF IsFin(var) THEN Sqrt(var) ELSE var

\* x * c for a "sqrt" number x and a rational c >= 0 given by its square c2
ScaleSqrt(x, c2) ==
    IF x.k = "sqrt" THEN Sqrt(FMul(Fin(x.n, x.d), c2)) ELSE x

\* Series.rolling(window).mean().iloc[-1]: NaN with fewer than `window` entries
rolling_mean_last(s, window) ==
    IF Len(s) < window THEN NaN ELSE mean(tail(s, window))

---------------------------------------------------------------------------
(* stock_fetcher.py                                                        *)

\* (last - back) / back * 100 with back = close_prices.iloc[-k]
PriceChange(close, k) ==
    FMul(FDiv(FSub(Num(iloc(close, 1)), Num(iloc(close, k))), Num(iloc(close, k))),
         Num(100))

\* returns.tail(30) of returns = close_prices.pct_change().dropna()
VolReturns(close) == tail(dropna(pct_change(close)), 30)

\* returns.tail(30).std() * (252**0.5) * 100
Volatility(close) == ScaleSqrt(std(VolReturns(close)), Num(252 * 100 * 100))

_calculate_rsi(prices, period) ==
    LET delta == diff(prices)
        gains == [i \in 1..Len(prices) |->
                     IF FGt(delta[i], Num(0)) THEN delta[i] ELSE Num(0)]
        losses == [i \in 1..Len(prices) |->
                     FNeg(IF FLt(delta[i], Num(0)) THEN delta[i] ELSE Num(0))]
        gain == rolling_mean_last(gains, period)
        loss == rolling_mean_last(losses, period)
        rs   == FDiv(gain, loss)
    IN  FSub(Num(100), FDiv(Num(100), FAdd(Num(1), rs)))

\* AboveMa with `>` written `>=`
AboveMa_NonStrict(close, window) ==
    IF ~FLt(Num(iloc(close, 1)), mean([i \in 1..window |-> Num(tail(close, window)[i])]))
    THEN "np.True_" ELSE "np.False_"

\* current_price > ma: a comparison of two numpy.float64, a numpy.bool_
AboveMa(close, window) ==
    IF FGt(Num(iloc(close, 1)), mean([i \in 1..window |-> Num(tail(close, window)[i])]))
    THEN "np.True_" ELSE "np.False_"

\* StockAnalysis(symbol=symbol): every optional field None, no risk factors
\* (models.py).  Flags are "None", Python "True"/"False", or the numpy.bool_
\* values "np.True_"/"np.False_"; risk_level is "None" or a RiskLevel value.
StockAnalysis(sym) ==
    [symbol           |-> sym,
     price_change_1d  |-> None,
     price_change_7d  |-> None,
     price_change_30d |-> None,
     volatility_30d   |-> None,
     rsi_14           |-> None,
     above_50_ma      |-> "None",
     above_200_ma     |-> "None",
     news_articles    |-> <<>>,
     overall_sentiment |-> "None",
     sentiment_summary |-> "None",
     risk_level       |-> "None",
     risk_factors     |-> <<>>]

\* PortfolioAnalysis(portfolio=portfolio): stock_analyses is a dict, kept as
\* the sequence of its [key, val] items in insertion order
PortfolioAnalysis ==
    [stock_analyses        |-> <<>>,
     portfolio_summary     |-> "None",
     diversification_score |-> None,
     risk_score            |-> None,
     overall_sentiment     |-> "None",
     strengths             |-> <<>>,
     weaknesses            |-> <<>>,
     recommendations       |-> <<>>,
     market_outlook        |-> "None"]

\* the four rules of _assess_risk: each yields the points it adds and the
\* factors it appends
VolatilityRisk(a) ==
    IF Truthy(a.volatility_30d)
    THEN IF FGt(a.volatility_30d, Num(50))
         THEN [points |-> 2, factors |-> <<"High volatility">>]
         ELSE IF FGt(a.volatility_30d, Num(30))
         THEN [points |-> 1, factors |-> <<"Moderate volatility">>]
         ELSE [points |-> 0, factors |-> <<>>]
    ELSE [points |-> 0, factors |-> <<>>]

RsiRisk(a) ==
    IF Truthy(a.rsi_14)
    THEN IF FGt(a.rsi_14, Num(70))
         THEN [points |-> 1, factors |-> <<"Overbought">>]
         ELSE IF FLt(a.rsi_14, Num(30))
         THEN [points |-> 1, factors |-> <<"Oversold">>]
         ELSE [points |-> 0, factors |-> <<>>]
    ELSE [points |-> 0, factors |-> <<>>]

\* `analysis.above_200_ma is False`: identity with the Python singleton,
\* which a numpy.bool_ is not
TrendRisk(a) ==
    IF a.above_200_ma = "False"
    THEN [points |-> 1, factors |-> <<"Below 200-day moving average">>]
    ELSE [points |-> 0, factors |-> <<>>]

DeclineRisk(a) ==
    IF Truthy(a.price_change_30d) /\ FLt(a.price_change_30d, Num(-10))
    THEN [points |-> 1, factors |-> <<"Significant 30-day decline">>]
    ELSE [points |-> 0, factors |-> <<>>]

risk_score(a) ==
    VolatilityRisk(a).points + RsiRisk(a).points + TrendRisk(a).points
        + DeclineRisk(a).points

\* RiskLevelOf with every `>=` written `>`
RiskLevelOf_Strict(score) ==
    IF score > 4 THEN "very_high"
    ELSE IF score > 3 THEN "high"
    ELSE IF score > 2 THEN "medium"
    ELSE "low"

RiskLevelOf(score) ==
    IF score >= 4 THEN "very_high"
    ELSE IF score >= 3 THEN "high"
    ELSE IF score >= 2 THEN "medium"
    ELSE "low"

\* returns (risk_level, risk_factors)
_assess_risk(a) ==
    [risk_level   |-> RiskLevelOf(risk_score(a)),
     risk_factors |-> VolatilityRisk(a).factors \o RsiRisk(a).factors
                         \o TrendRisk(a).factors \o DeclineRisk(a).factors]

\* the indicator fields analyze_stock sets from a non-empty close series,
\* before the risk assessment
Indicators(sym, close) ==
    LET n == Len(close) IN
    [StockAnalysis(sym) EXCEPT
        !.price_change_1d  = IF n >= 2  THEN PriceChange(close, 2)  ELSE None,
        !.price_change_7d  = IF n >= 7  THEN PriceChange(close, 7)  ELSE None,
        !.price_change_30d = IF n >= 30 THEN PriceChange(close, 30) ELSE None,
        !.volatility_30d   = IF n >= 30 THEN Volatility(close)      ELSE None,
        !.rsi_14           = IF n >= 15 THEN _calculate_rsi(close, 14) ELSE None,
        !.above_50_ma      = IF n >= 50  THEN AboveMa(close, 50)  ELSE "None",
        !.above_200_ma     = IF n >= 200 THEN AboveMa(close, 200) ELSE "None"]

\* analyze_stock without the early return on an empty frame: the risk
\* assessment runs on the analysis as constructed
analyze_stock_NoEarlyReturn(sym, hist) ==
    IF hist.status = "raise" THEN StockAnalysis(sym)
    ELSE LET a == IF hist.close = <<>> THEN StockAnalysis(sym)
                  ELSE Indicators(sym, hist.close)
             r == _assess_risk(a)
         IN  [a EXCEPT !.risk_level = r.risk_level, !.risk_factors = r.risk_factors]

\* analyze_stock falling back on an older two-point series when the fetch
\* fails or returns nothing
analyze_stock_StaleOnFailure(sym, hist) ==
    LET close == IF hist.status = "raise" \/ hist.close = <<>> THEN <<10, 11>>
                 ELSE hist.close
        a == Indicators(sym, close)
        r == _assess_risk(a)
    IN  [a EXCEPT !.risk_level = r.risk_level, !.risk_factors = r.risk_factors]

\* analyze_stock(symbol) for one outcome of fetch_history: an exception is
\* caught and logged, an empty frame returns early, and in both cases the
\* analysis goes back as it was constructed
analyze_stock(sym, hist) ==
    IF hist.status = "raise" THEN StockAnalysis(sym)
    ELSE IF hist.close = <<>> THEN StockAnalysis(sym)
    ELSE LET a == Indicators(sym, hist.close)
             r == _assess_risk(a)
         IN  [a EXCEPT !.risk_level = r.risk_level, !.risk_factors = r.risk_factors]

---------------------------------------------------------------------------
(* Inputs                                                                  *)

Symbols == {"AAPL", "MSFT"}

\* closing prices a series may hold; 0 violates the upstream invariant
\* closing_price > 0 and is what the engine has to tolerate
Prices == {0, 10, 11, 20}

\* longest series fetched
MaxLen == 201

\* the history lengths at which an indicator becomes defined, each with
\* its two neighbours
Thresholds == {2, 7, 8, 15, 30, 31, 50, 200}
Lens == {L \in 0..MaxLen : L = 0 \/ L = MaxLen \/ \E t \in Thresholds : L - t \in -1..1}

\* how many days before the last one the price last changed
StepBacks == {0, 1, 6, 7, 13, 14, 29, 30}

\* a series of L prices: a, then b for the j days before the last, then c
Series(L, a, b, c, j) ==
    [i \in 1..L |-> IF i = L THEN c ELSE IF i >= L - j THEN b ELSE a]

AllSeries ==
    {Series(L, a, b, c, j) : L \in Lens, a \in Prices, b \in Prices,
                             c \in Prices, j \in StepBacks}

\* what fetch_history can do: raise, or return a frame (possibly empty)
Histories ==
    {[status |-> "raise", close |-> <<>>]}
        \cup {[status |-> "ok", close |-> s] : s \in AllSeries}

NoHistory == [status |-> "none", close |-> <<>>]
NoHolding == [symbol |-> "", shares |-> None, cost_basis |-> None,
                 current_price |-> None, sector |-> "None"]
NoQuote == [status |-> "none", currentPrice |-> None,
            regularMarketPrice |-> None, sector |-> "None"]
NoReport == [total_value |-> None, total_cost |-> None, total_gain_loss |-> None,
             total_gain_loss_percent |-> None,
             allocation |-> <<>>, sector_allocation |-> <<>>]
NoRun == [include_news |-> FALSE, include_ai_insights |-> FALSE,
          progress_callback |-> FALSE, api_key |-> FALSE,
          i |-> 0, current_step |-> 0, total_steps |-> 0]
NoResponse == [status |-> "none", articles |-> <<>>,
               overall_sentiment |-> "absent", summary |-> "absent"]
NoSentiment == [overall |-> "None", summary |-> "None"]

\* the loaders, the report and the news cache while the command line and
\* the news fetcher are not in use
NoIo ==
    /\ rows = [loader |-> "none"]
    /\ table = [holdings |-> <<>>, analyses |-> <<>>]
    /\ document = [status |-> "none"]
    /\ cache = [newsapi_key |-> FALSE, enabled |-> FALSE, items |-> <<>>]

\* the variables of the portfolio operations while none of them is running
NoPortfolioRun ==
    /\ portfolio = <<>>
    /\ report = NoReport
    /\ pa = PortfolioAnalysis
    /\ run = NoRun
    /\ calls = <<>>
    /\ articles = <<>>
    /\ response = NoResponse
    /\ sentiment = NoSentiment

\* the variables of the single-stock operations while none of them is running
NoStockRun ==
    /\ symbol = ""
    /\ history = NoHistory
    /\ analysis = StockAnalysis("")
    /\ other = StockAnalysis("")
    /\ holding = NoHolding
    /\ quote = NoQuote

---------------------------------------------------------------------------
(* Spec: one call of analyze_stock                                         *)

Init ==
    /\ pc = "start"
    /\ symbol \in Symbols
    /\ history = NoHistory
    /\ analysis = StockAnalysis("")
    /\ other = StockAnalysis("")
    /\ holding = NoHolding
    /\ quote = NoQuote
    /\ NoPortfolioRun
    /\ NoIo

AnalyzeStock ==
    /\ pc = "start"
    /\ \E h \in Histories :
          /\ history' = h
          /\ analysis' = analyze_stock(symbol, h)
    /\ pc' = "done"
    /\ UNCHANGED <<ioVars, symbol, other, holding, quote, portfolioVars>>

Next == AnalyzeStock

Spec == Init /\ [][Next]_vars

---------------------------------------------------------------------------
(* RiskSpec: _assess_risk applied to two populated StockAnalysis records   *)

\* volatility_30d, rsi_14, above_200_ma and price_change_30d as
\* analyze_stock can leave them, around every threshold of the rules
RiskVols  == {None, NaN, Num(0), Num(30), Num(31), Num(50), Num(55)}
RiskRsis  == {None, NaN, Num(0), Num(20), Num(30), Num(70), Num(75)}
RiskFlags == {"None", "True", "False", "np.True_", "np.False_"}
RiskChgs  == {None, Num(0), Num(-10), Num(-15)}

RiskInputs ==
    {[StockAnalysis("AAPL") EXCEPT !.volatility_30d = v, !.rsi_14 = r,
                                   !.above_200_ma = f, !.price_change_30d = c] :
        v \in RiskVols, r \in RiskRsis, f \in RiskFlags, c \in RiskChgs}

OtherInputs ==
    {[StockAnalysis("MSFT") EXCEPT !.volatility_30d = v, !.rsi_14 = r,
                                   !.above_200_ma = f, !.price_change_30d = c] :
        v \in {None, Num(31), Num(55)}, r \in {None, Num(0), Num(20), Num(75)},
        f \in {"None", "False", "np.False_"}, c \in {None, Num(-15)}}

RiskInit ==
    /\ pc = "risk"
    /\ symbol = "AAPL"
    /\ history = NoHistory
    /\ analysis \in RiskInputs
    /\ other \in OtherInputs
    /\ holding = NoHolding
    /\ quote = NoQuote
    /\ NoPortfolioRun
    /\ NoIo

\* analysis.risk_level, analysis.risk_factors = self._assess_risk(analysis)
AssessRisk ==
    /\ pc = "risk"
    /\ analysis' = [analysis EXCEPT
                       !.risk_level = _assess_risk(analysis).risk_level,
                       !.risk_factors = _assess_risk(analysis).risk_factors]
    /\ pc' = "risk_other"
    /\ UNCHANGED <<ioVars, symbol, history, other, holding, quote, portfolioVars>>

AssessOther ==
    /\ pc = "risk_other"
    /\ other' = [other EXCEPT
                    !.risk_level = _assess_risk(other).risk_level,
                    !.risk_factors = _assess_risk(other).risk_factors]
    /\ pc' = "risk_done"
    /\ UNCHANGED <<ioVars, symbol, history, analysis, holding, quote, portfolioVars>>

RiskNext == AssessRisk \/ AssessOther

RiskSpec == RiskInit /\ [][RiskNext]_vars

---------------------------------------------------------------------------
(* models.py: StockHolding                                                 *)

\* StockHolding(symbol=..., shares=..., cost_basis=..., current_price=...)
StockHolding(sym, shares, cost_basis, current_price) ==
    [symbol |-> sym, shares |-> shares, cost_basis |-> cost_basis,
     current_price |-> current_price, sector |-> "None"]

current_value(h) ==
    IF Truthy(h.current_price) THEN FMul(h.shares, h.current_price) ELSE None

total_gain_loss(h) ==
    IF Truthy(h.current_price) /\ Truthy(h.cost_basis)
    THEN FMul(FSub(h.current_price, h.cost_basis), h.shares)
    ELSE None

gain_loss_percent(h) ==
    IF Truthy(h.current_price) /\ Truthy(h.cost_basis) /\ FGt(h.cost_basis, Num(0))
    THEN FMul(FDiv(FSub(h.current_price, h.cost_basis), h.cost_basis), Num(100))
    ELSE None

\* info.get(key, 0): the value of the key, 0 when the quote lacks it
InfoGet0(v) == IF v.k = "none" THEN Num(0) ELSE v

\* enrich_holding for one outcome of fetch_stock_info: an exception is
\* caught and the holding goes back unchanged
enrich_holding(h, q) ==
    IF q.status = "raise" THEN h
    ELSE [h EXCEPT
            !.current_price =
                IF Truthy(InfoGet0(q.currentPrice)) THEN InfoGet0(q.currentPrice)
                ELSE InfoGet0(q.regularMarketPrice),
            !.sector = q.sector]

---------------------------------------------------------------------------
(* HoldingSpec: a holding is created, enriched once, and read              *)

Shares     == {Num(1), Num(10)}
CostBases  == {None, Num(-100), Num(0), Num(100), Num(200)}
QuotePrices == {None, Num(0), Num(50), Num(100), Num(150)}
Sectors    == {"None", "Technology"}

Quotes ==
    {[status |-> "raise", currentPrice |-> None, regularMarketPrice |-> None,
      sector |-> "None"]}
        \cup {[status |-> "ok", currentPrice |-> c, regularMarketPrice |-> r,
               sector |-> s] :
                 c \in QuotePrices, r \in {None, Num(0), Num(150)}, s \in Sectors}

HoldingInit ==
    /\ pc = "created"
    /\ symbol \in Symbols
    /\ history = NoHistory
    /\ analysis = StockAnalysis("")
    /\ other = StockAnalysis("")
    /\ holding \in {StockHolding(symbol, sh, cb, cp) :
                       sh \in Shares, cb \in CostBases, cp \in {None, Num(150)}}
    /\ quote = NoQuote
    /\ NoPortfolioRun
    /\ NoIo

EnrichHolding ==
    /\ pc = "created"
    /\ \E q \in Quotes :
          /\ quote' = q
          /\ holding' = enrich_holding(holding, q)
    /\ pc' = "enriched"
    /\ UNCHANGED <<ioVars, symbol, history, analysis, other, portfolioVars>>

HoldingNext == EnrichHolding

HoldingSpec == HoldingInit /\ [][HoldingNext]_vars

---------------------------------------------------------------------------
(* models.py: Portfolio.  holdings is a sequence of StockHolding; a dict   *)
(* is the sequence of its [key, val] items in insertion order.  Decimal    *)
(* arithmetic and the conversion float(...) of a quotient are exact here.  *)

\* d[k] = v: a new key goes to the end, a present key keeps its place
DictSet(d, k, v) ==
    IF \E j \in 1..Len(d) : d[j].key = k
    THEN [j \in 1..Len(d) |-> IF d[j].key = k THEN [key |-> k, val |-> v] ELSE d[j]]
    ELSE Append(d, [key |-> k, val |-> v])

\* d.get(k, default)
DictGet(d, k, default) ==
    IF \E j \in 1..Len(d) : d[j].key = k
    THEN d[CHOOSE j \in 1..Len(d) : d[j].key = k].val
    ELSE default

\* h.current_value or Decimal("0")
HoldingValue(h) ==
    IF Truthy(current_value(h)) THEN current_value(h) ELSE Num(0)

\* h.cost_basis * h.shares if h.cost_basis else Decimal("0")
HoldingCost(h) ==
    IF Truthy(h.cost_basis) THEN FMul(h.cost_basis, h.shares) ELSE Num(0)

\* the sum of the values of the holdings before the first one whose
\* current_value is undefined
total_value_StopAtUndefined(hs) ==
    LET stop == IF \E i \in 1..Len(hs) : current_value(hs[i]) = None
                THEN (CHOOSE i \in 1..Len(hs) :
                         /\ current_value(hs[i]) = None
                         /\ \A j \in 1..(i - 1) : current_value(hs[j]) # None) - 1
                ELSE Len(hs)
    IN  SumRange([i \in 1..Len(hs) |-> HoldingValue(hs[i])], 1, stop)

total_value(hs) ==
    SumRange([i \in 1..Len(hs) |-> HoldingValue(hs[i])], 1, Len(hs))

total_cost(hs) ==
    SumRange([i \in 1..Len(hs) |-> HoldingCost(hs[i])], 1, Len(hs))

Portfolio_total_gain_loss(hs) == FSub(total_value(hs), total_cost(hs))

total_gain_loss_percent(hs) ==
    IF FGt(total_cost(hs), Num(0))
    THEN FMul(FDiv(Portfolio_total_gain_loss(hs), total_cost(hs)), Num(100))
    ELSE Num(0)

\* the dict comprehension of get_allocation over hs[i..]
RECURSIVE AllocationFrom(_, _, _)
AllocationFrom(hs, i, d) ==
    IF i > Len(hs) THEN d
    ELSE AllocationFrom(hs, i + 1,
            DictSet(d, hs[i].symbol,
                    FMul(FDiv(HoldingValue(hs[i]), total_value(hs)), Num(100))))

get_allocation(hs) ==
    IF total_value(hs) = Num(0) THEN <<>> ELSE AllocationFrom(hs, 1, <<>>)

\* h.sector, unchanged even when the holding has none
SectorKey_Raw(h) == h.sector

\* h.sector or "Unknown"
SectorKey(h) == IF h.sector \in {"None", ""} THEN "Unknown" ELSE h.sector

\* the loop of get_sector_allocation over hs[i..]
RECURSIVE SectorValuesFrom(_, _, _)
SectorValuesFrom(hs, i, d) ==
    IF i > Len(hs) THEN d
    ELSE SectorValuesFrom(hs, i + 1,
            DictSet(d, SectorKey(hs[i]),
                    FAdd(DictGet(d, SectorKey(hs[i]), Num(0)), HoldingValue(hs[i]))))

get_sector_allocation(hs) ==
    IF total_value(hs) = Num(0) THEN <<>>
    ELSE LET sector_values == SectorValuesFrom(hs, 1, <<>>)
         IN  [j \in 1..Len(sector_values) |->
                [key |-> sector_values[j].key,
                 val |-> FMul(FDiv(sector_values[j].val, total_value(hs)), Num(100))]]

---------------------------------------------------------------------------
(* PortfolioSpec: a portfolio is loaded and its computed fields are read   *)

\* holdings as loading and enrichment leave them: two lots of one symbol,
\* a holding without cost basis, one never enriched (no current price), one
\* enriched from a quote without a price (price 0), one without a sector
PortfolioHoldings ==
    {[StockHolding("AAPL", Num(10), Num(50), Num(100)) EXCEPT !.sector = "Technology"],
     [StockHolding("MSFT", Num(10), Num(200), Num(300)) EXCEPT !.sector = "Technology"],
     [StockHolding("AAPL", Num(1), Num(100), Num(300)) EXCEPT !.sector = "Technology"],
     [StockHolding("XOM", Num(10), None, Num(100)) EXCEPT !.sector = "Energy"],
     StockHolding("GOOG", Num(1), Num(100), None),
     StockHolding("TSLA", Num(10), Num(0), Num(0)),
     StockHolding("IBM", Num(1), Num(100), Num(100))}

\* most holdings in a loaded portfolio
MaxHoldings == 3

Portfolios ==
    UNION {[1..n -> PortfolioHoldings] : n \in 0..MaxHoldings}

PortfolioInit ==
    /\ pc = "loaded"
    /\ NoStockRun
    /\ NoIo
    /\ portfolio \in Portfolios
    /\ report = NoReport
    /\ pa = PortfolioAnalysis
    /\ run = NoRun
    /\ calls = <<>>
    /\ articles = <<>>
    /\ response = NoResponse
    /\ sentiment = NoSentiment

\* the computed fields and both allocations are read
ReadPortfolio ==
    /\ pc = "loaded"
    /\ report' = [total_value |-> total_value(portfolio),
                  total_cost |-> total_cost(portfolio),
                  total_gain_loss |-> Portfolio_total_gain_loss(portfolio),
                  total_gain_loss_percent |-> total_gain_loss_percent(portfolio),
                  allocation |-> get_allocation(portfolio),
                  sector_allocation |-> get_sector_allocation(portfolio)]
    /\ pc' = "reported"
    /\ UNCHANGED <<ioVars, stockVars, portfolio, pa, run, calls, articles, response, sentiment>>

PortfolioNext == ReadPortfolio

PortfolioSpec == PortfolioInit /\ [][PortfolioNext]_vars

---------------------------------------------------------------------------
(* sentiment.py: analyze_sentiment.  The answer of the AI service is a     *)
(* record [status, articles, overall_sentiment, summary]:                  *)
(*   status "none"          _call_ai returned None (failure, no client) or *)
(*                          an empty string                                *)
(*   status "invalid_json"  json.loads raises JSONDecodeError              *)
(*   status "list"          valid JSON that is not an object               *)
(*   status "object"        a JSON object; articles is its "articles"      *)
(*                          list of [has_index, index, sentiment] entries; *)
(*                          a string key the object lacks is "absent"      *)

SentimentScore == {"very_bearish", "bearish", "neutral", "bullish", "very_bullish"}

\* NewsArticle(title=...): the fields the analysis populates start empty
NewsArticle(title) ==
    [title |-> title, sentiment |-> "None", sentiment_reasoning |-> "None",
     key_points |-> <<>>]

\* dict.get(key, default) on a value that is "absent" when the key is missing
GetOr(v, default) == IF v = "absent" THEN default ELSE v

\* the loop over data.get("articles", []) from entry j on: the list is
\* updated in place; SentimentScore(...) raises ValueError on an unknown
\* label, which ends the loop with the earlier updates made
RECURSIVE Annotate(_, _, _)
Annotate(arts, entries, j) ==
    IF j > Len(entries) THEN [articles |-> arts, failed |-> FALSE]
    ELSE LET idx == IF entries[j].has_index THEN entries[j].index ELSE 0
             sentiment_str == GetOr(entries[j].sentiment, "neutral")
         IN  IF 0 <= idx /\ idx < Len(arts)
             THEN IF sentiment_str \in SentimentScore
                  THEN Annotate([arts EXCEPT ![idx + 1] =
                                    [@ EXCEPT !.sentiment = sentiment_str,
                                              !.sentiment_reasoning = "reasoning",
                                              !.key_points = <<"point">>]],
                                entries, j + 1)
                  ELSE [articles |-> arts, failed |-> TRUE]
             ELSE Annotate(arts, entries, j + 1)

\* analyze_sentiment(symbol, articles) for one answer of the service:
\* the list as the call leaves it, the returned overall sentiment and
\* summary, and whether an exception left the call
analyze_sentiment(arts, resp) ==
    LET absent(a) == [raised |-> FALSE, articles |-> a,
                      overall |-> "None", summary |-> "None"]
    IN  IF arts = <<>> THEN absent(arts)
        ELSE IF resp.status \in {"none", "invalid_json"} THEN absent(arts)
        ELSE IF resp.status = "list"
             THEN [raised |-> TRUE, articles |-> arts,
                   overall |-> "None", summary |-> "None"]
        ELSE LET ann == Annotate(arts, GetOr(resp.articles, <<>>), 1)
                 overall == GetOr(resp.overall_sentiment, "neutral")
             IN  IF ann.failed \/ overall \notin SentimentScore
                 THEN absent(ann.articles)
                 ELSE [raised |-> FALSE, articles |-> ann.articles,
                       overall |-> overall,
                       summary |-> GetOr(resp.summary, "None")]

---------------------------------------------------------------------------
(* SentimentSpec: one call of analyze_sentiment                            *)

\* what fetch_news hands over: up to two articles, none annotated
ArticleLists ==
    {<<>>, <<NewsArticle("a0")>>, <<NewsArticle("a0"), NewsArticle("a1")>>}

\* entries of the "articles" list of an answer: an index in or out of the
\* list or missing, a known or unknown label or none
SentimentEntries ==
    {[has_index |-> i <= 2, index |-> IF i <= 2 THEN i ELSE 0, sentiment |-> l] :
        i \in 0..3, l \in {"bullish", "strong_buy", "absent"}}

SentimentResponses ==
    {[status |-> st, articles |-> <<>>, overall_sentiment |-> "absent",
      summary |-> "absent"] : st \in {"none", "invalid_json", "list"}}
        \cup {[status |-> "object", articles |-> es, overall_sentiment |-> o,
               summary |-> "text"] :
                 es \in {<<>>} \cup {<<e>> : e \in SentimentEntries}
                        \cup {<<e, f>> : e \in SentimentEntries, f \in SentimentEntries},
                 o \in {"bearish", "strong_buy", "absent"}}

SentimentInit ==
    /\ pc = "sentiment"
    /\ NoStockRun
    /\ NoIo
    /\ portfolio = <<>>
    /\ report = NoReport
    /\ pa = PortfolioAnalysis
    /\ run = NoRun
    /\ calls = <<>>
    /\ articles \in ArticleLists
    /\ response \in SentimentResponses
    /\ sentiment = NoSentiment

AnalyzeSentiment ==
    /\ pc = "sentiment"
    /\ LET res == analyze_sentiment(articles, response)
       IN  /\ articles' = res.articles
           /\ sentiment' = [overall |-> res.overall, summary |-> res.summary]
           /\ pc' = IF res.raised THEN "sentiment_raised" ELSE "sentiment_done"
    /\ UNCHANGED <<ioVars, stockVars, portfolio, report, pa, run, calls, response>>

SentimentNext == AnalyzeSentiment

SentimentSpec == SentimentInit /\ [][SentimentNext]_vars

---------------------------------------------------------------------------
(* sentiment.py: generate_portfolio_insights.  The answer of the service   *)
(* is a record with a status as above; for an object, keys is the set of   *)
(* the keys it holds and the other fields are their values.                *)

InsightKeys ==
    {"portfolio_summary", "diversification_score", "risk_score",
     "overall_sentiment", "strengths", "weaknesses", "recommendations",
     "market_outlook"}

\* the JSON object with the given keys, each with a fixed value
InsightObject(keys) ==
    [status |-> "object", keys |-> keys,
     portfolio_summary |-> "text", diversification_score |-> Num(75),
     risk_score |-> Num(45), overall_sentiment |-> "bullish",
     strengths |-> <<"strength">>, weaknesses |-> <<"weakness">>,
     recommendations |-> <<"recommendation">>, market_outlook |-> "text"]

\* generate_portfolio_insights: {} when the call failed or the answer is
\* not JSON, else whatever json.loads returned
generate_portfolio_insights(resp) ==
    IF resp.status \in {"none", "invalid_json"} THEN InsightObject({}) ELSE resp

---------------------------------------------------------------------------
(* analyzer.py: analyze_portfolio                                          *)

\* an entry of the log of calls: which call, for which holding (its position
\* in the list, 0 for the whole portfolio), and for the progress callback
\* the step counter and total it was given
Call(op, k) == [op |-> op, arg |-> k, step |-> 0, total |-> 0]

total_steps(n, include_news, include_ai_insights) ==
    n * (IF include_news THEN 3 ELSE 2) + (IF include_ai_insights THEN 1 ELSE 0)

\* update_progress reporting the counter as it was before the step
update_progress_NoIncrement(r) ==
    IF r.progress_callback
    THEN <<[op |-> "progress_callback", arg |-> 0,
            step |-> r.current_step, total |-> r.total_steps]>>
    ELSE <<>>

\* update_progress(description): what it adds to the log (current_step is
\* incremented by the calling action)
update_progress(r) ==
    IF r.progress_callback
    THEN <<[op |-> "progress_callback", arg |-> 0,
            step |-> r.current_step + 1, total |-> r.total_steps]>>
    ELSE <<>>

\* the stage whose loop follows the loop of `stage`, analysis left out
Following_SkipAnalysis(stage) ==
    CASE stage = "enrich"  -> "news"
      [] stage = "analyze" -> "news"
      [] stage = "news"    -> "insights"

\* the stage whose loop follows the loop of `stage`
Following(stage) ==
    CASE stage = "enrich"  -> "analyze"
      [] stage = "analyze" -> "news"
      [] stage = "news"    -> "insights"

\* where control is when it reaches the code of `stage` for n holdings: in
\* that stage if it has an iteration to run, else at the next one that has
Enter(stage, r, n) ==
    IF n > 0 /\ stage \in {"enrich", "analyze"} THEN stage
    ELSE IF n > 0 /\ stage = "news" /\ r.include_news THEN "news"
    ELSE IF r.include_ai_insights /\ r.api_key THEN "insights"
    ELSE "returned"

\* where control is after iteration r.i of the loop of `stage`
After(stage, r, n) ==
    IF r.i < n THEN stage ELSE Enter(Following(stage), r, n)

\* the locals after one more step: the step counter and the loop index
Stepped(r, n) ==
    [r EXCEPT !.current_step = @ + 1, !.i = IF @ < n THEN @ + 1 ELSE 1]

\* insights.get(key) and insights.get(key, default)
InsightGet(ins, key, default) == IF key \in ins.keys THEN ins[key] ELSE default

\* lines 134-141, with every holding's analysis overwritten as well
ApplyInsights_Overwriting(a, ins) ==
    [a EXCEPT
        !.portfolio_summary = InsightGet(ins, "portfolio_summary", "None"),
        !.stock_analyses =
            [j \in 1..Len(a.stock_analyses) |->
                [a.stock_analyses[j] EXCEPT
                    !.val = StockAnalysis(a.stock_analyses[j].key)]]]

\* lines 134-141: the insights are applied to the analysis
ApplyInsights(a, ins) ==
    [a EXCEPT
        !.portfolio_summary = InsightGet(ins, "portfolio_summary", "None"),
        !.diversification_score = InsightGet(ins, "diversification_score", None),
        !.risk_score = InsightGet(ins, "risk_score", None),
        !.overall_sentiment = InsightGet(ins, "overall_sentiment", "None"),
        !.strengths = InsightGet(ins, "strengths", <<>>),
        !.weaknesses = InsightGet(ins, "weaknesses", <<>>),
        !.recommendations = InsightGet(ins, "recommendations", <<>>),
        !.market_outlook = InsightGet(ins, "market_outlook", "None")]

---------------------------------------------------------------------------
(* PipelineSpec: one call of analyze_portfolio, one action per iteration   *)
(* of its loops and one for the insight step.  pc is the stage control is  *)
(* in ("enrich", "analyze", "news", "insights"), "returned" after the      *)
(* return and "raised" when an exception left analyze_portfolio.           *)

\* portfolios as the loaders build them (no price, no sector yet): empty,
\* one holding, two holdings, two lots of one symbol, three holdings
PipelinePortfolios ==
    {<<>>,
     <<StockHolding("AAPL", Num(10), Num(50), None)>>,
     <<StockHolding("AAPL", Num(10), Num(50), None),
       StockHolding("MSFT", Num(1), None, None)>>,
     <<StockHolding("AAPL", Num(10), Num(50), None),
       StockHolding("AAPL", Num(1), Num(100), None)>>,
     <<StockHolding("AAPL", Num(10), Num(50), None),
       StockHolding("MSFT", Num(1), None, None),
       StockHolding("XOM", Num(1), Num(100), None)>>}

\* what the collaborators can do in a run: the quote fetch fails or gives a
\* price and a sector
PipelineQuotes ==
    {q \in Quotes : q.status = "raise"
                    \/ (q.currentPrice = Num(100) /\ q.regularMarketPrice = None
                        /\ q.sector = "Technology")}

\* the history fetch fails, gives nothing, or gives two closing prices
PipelineHistories ==
    {h \in Histories : h.status = "raise" \/ h.close \in {<<>>, <<10, 11>>}}

\* the sentiment service fails, answers with something that is not JSON,
\* with JSON that is not an object, with a well-formed object, or with an
\* unknown label on the second article
PipelineResponses ==
    {r \in SentimentResponses :
        \/ r.status # "object"
        \/ /\ r.overall_sentiment = "bearish"
           /\ Len(r.articles) = 2
           /\ r.articles[1] = [has_index |-> TRUE, index |-> 0, sentiment |-> "bullish"]
           /\ r.articles[2].has_index /\ r.articles[2].index = 1
           /\ r.articles[2].sentiment # "absent"}

\* the news fetch gives nothing (no news, or a failure it caught) or two
\* articles
PipelineNews == {a \in ArticleLists : Len(a) # 1}

\* the insight service fails, answers with something that is not JSON, with
\* a JSON list, or with an object holding none, two or all of the keys
InsightResponses ==
    {[InsightObject({}) EXCEPT !.status = st] : st \in {"none", "invalid_json", "list"}}
        \cup {InsightObject(ks) :
                 ks \in {{}, {"portfolio_summary", "risk_score"}, InsightKeys}}

\* the arguments and locals at line 80
Invocation(n, include_news, include_ai_insights, progress_callback, api_key) ==
    [include_news |-> include_news, include_ai_insights |-> include_ai_insights,
     progress_callback |-> progress_callback, api_key |-> api_key,
     i |-> 1, current_step |-> 0,
     total_steps |-> total_steps(n, include_news, include_ai_insights)]

PipelineInit ==
    /\ NoStockRun
    /\ NoIo
    /\ portfolio \in PipelinePortfolios
    /\ report = NoReport
    /\ pa = PortfolioAnalysis
    /\ run \in {Invocation(Len(portfolio), a, b, c, k) :
                   a \in BOOLEAN, b \in BOOLEAN, c \in BOOLEAN, k \in BOOLEAN}
    /\ calls = <<>>
    /\ articles = <<>>
    /\ response = NoResponse
    /\ sentiment = NoSentiment
    /\ pc = Enter("enrich", run, Len(portfolio))

\* lines 89-91, one iteration
EnrichStep ==
    /\ pc = "enrich"
    /\ \E q \in PipelineQuotes :
          portfolio' = [portfolio EXCEPT ![run.i] = enrich_holding(@, q)]
    /\ calls' = calls \o update_progress(run) \o <<Call("enrich_holding", run.i)>>
    /\ run' = Stepped(run, Len(portfolio))
    /\ pc' = After("enrich", run, Len(portfolio))
    /\ UNCHANGED <<ioVars, stockVars, report, pa, articles, response, sentiment>>

\* lines 94-97, one iteration
AnalyzeStep ==
    /\ pc = "analyze"
    /\ \E h \in PipelineHistories :
          pa' = [pa EXCEPT !.stock_analyses =
                    DictSet(@, portfolio[run.i].symbol,
                            analyze_stock(portfolio[run.i].symbol, h))]
    /\ calls' = calls \o update_progress(run) \o <<Call("analyze_stock", run.i)>>
    /\ run' = Stepped(run, Len(portfolio))
    /\ pc' = After("analyze", run, Len(portfolio))
    /\ UNCHANGED <<ioVars, stockVars, portfolio, report, articles, response, sentiment>>

\* lines 101-115, one iteration: without articles or without an API key the
\* fetched list is stored as it is; else analyze_sentiment runs, and its
\* exception, if any, leaves analyze_portfolio
NewsStep ==
    /\ pc = "news"
    /\ run' = Stepped(run, Len(portfolio))
    /\ \E fetched \in PipelineNews :
          LET sym == portfolio[run.i].symbol
              stock_analysis == DictGet(pa.stock_analyses, sym, StockAnalysis(sym))
              log == calls \o update_progress(run) \o <<Call("fetch_news", run.i)>>
          IN  IF fetched # <<>> /\ run.api_key
              THEN \E resp \in PipelineResponses :
                      LET res == analyze_sentiment(fetched, resp)
                      IN  /\ response' = resp
                          /\ calls' = log \o <<Call("analyze_sentiment", run.i)>>
                          /\ IF res.raised
                             THEN pc' = "raised" /\ pa' = pa
                             ELSE /\ pc' = After("news", run, Len(portfolio))
                                  /\ pa' = [pa EXCEPT !.stock_analyses =
                                               DictSet(@, sym,
                                                   [stock_analysis EXCEPT
                                                       !.news_articles = res.articles,
                                                       !.overall_sentiment = res.overall,
                                                       !.sentiment_summary = res.summary])]
              ELSE /\ response' = response
                   /\ calls' = log
                   /\ pc' = After("news", run, Len(portfolio))
                   /\ pa' = [pa EXCEPT !.stock_analyses =
                                DictSet(@, sym,
                                    [stock_analysis EXCEPT !.news_articles = fetched])]
    /\ UNCHANGED <<ioVars, stockVars, portfolio, report, articles, sentiment>>

\* lines 118-141: a truthy answer that is not a dict has no .get, and the
\* AttributeError leaves analyze_portfolio
InsightStep ==
    /\ pc = "insights"
    /\ run' = Stepped(run, Len(portfolio))
    /\ calls' = calls \o update_progress(run)
                      \o <<Call("generate_portfolio_insights", 0)>>
    /\ \E resp \in InsightResponses :
          LET insights == generate_portfolio_insights(resp)
          IN  /\ response' = resp
              /\ IF insights.status = "list"
                 THEN pc' = "raised" /\ pa' = pa
                 ELSE /\ pc' = "returned"
                      /\ pa' = IF insights.keys # {} THEN ApplyInsights(pa, insights)
                               ELSE pa
    /\ UNCHANGED <<ioVars, stockVars, portfolio, report, articles, sentiment>>

PipelineNext == EnrichStep \/ AnalyzeStep \/ NewsStep \/ InsightStep

PipelineSpec == PipelineInit /\ [][PipelineNext]_vars

---------------------------------------------------------------------------
(* Claims about analyze_stock (checked under Spec)                         *)

Levels == {"low", "medium", "high", "very_high"}

Returned == pc = "done" /\ history.status = "ok"

\* a series that keeps the upstream invariant closing_price > 0
ValidSeries(close) == \A i \in 1..Len(close) : close[i] > 0

\* the n-day change as the specification defines it: against the price
\* exactly n positions before the last one
ChangeOver(close, n) ==
    LET last == close[Len(close)]
        back == close[Len(close) - n]
    IN  FMul(FDiv(Num(last - back), Num(back)), Num(100))

StoredChange(a, n) ==
    CASE n = 1  -> a.price_change_1d
      [] n = 7  -> a.price_change_7d
      [] n = 30 -> a.price_change_30d

\* C1: for n in {1, 7, 30} and every valid series of at least n+1 points, the
\* stored n-day change is (last - p_back) / p_back * 100 with p_back the price
\* exactly n positions before the last one.
C1_ChangeAgainstNBack ==
    (Returned /\ ValidSeries(history.close)) =>
        \A n \in {1, 7, 30} :
            Len(history.close) >= n + 1 =>
                StoredChange(analysis, n) = ChangeOver(history.close, n)

\* C2: for n in {1, 7, 30} and every valid series, the n-day change of the
\* returned analysis is defined if and only if the series has at least n+1
\* points; when analyze_stock got no series at all it is undefined.
C2_ChangeDefinedIff ==
    /\ (Returned /\ ValidSeries(history.close)) =>
          \A n \in {1, 7, 30} :
              (StoredChange(analysis, n) # None) <=> (Len(history.close) >= n + 1)
    /\ (pc = "done" /\ history.status = "raise") =>
          \A n \in {1, 7, 30} : StoredChange(analysis, n) = None

\* C3: volatility_30d is undefined for every valid series of fewer than 31
\* points, and when defined it is >= 0 and computed over exactly 30 returns.
C3_VolatilityNeeds31 ==
    (Returned /\ ValidSeries(history.close)) =>
        /\ Len(history.close) < 31 => analysis.volatility_30d = None
        /\ analysis.volatility_30d # None =>
              /\ analysis.volatility_30d.k = "sqrt"
              /\ analysis.volatility_30d.n >= 0
              /\ Len(VolReturns(history.close)) = 30

\* no negative day-over-day delta among the trailing 14
NoLossInWindow(close) ==
    \A i \in (Len(close) - 13)..Len(close) : close[i] >= close[i - 1]

\* C4: for every valid series of at least 15 points whose trailing 14 deltas
\* hold no loss (a flat window included), the RSI is exactly 100, never NaN or
\* infinite.
C4_RsiHundredWithoutLoss ==
    (/\ Returned
     /\ ValidSeries(history.close)
     /\ Len(history.close) >= 15
     /\ NoLossInWindow(history.close)) =>
        analysis.rsi_14 = Num(100)

InClosedRange(x, lo, hi) ==
    x.k = "fin" /\ ~FLt(x, Num(lo)) /\ ~FGt(x, Num(hi))

\* C5: for every valid series, rsi_14 is defined if and only if the series has
\* at least 15 points, and whenever it is defined it lies in [0, 100].
C5_RsiDefinedAndBounded ==
    (Returned /\ ValidSeries(history.close)) =>
        /\ (analysis.rsi_14 # None) <=> (Len(history.close) >= 15)
        /\ analysis.rsi_14 # None => InClosedRange(analysis.rsi_14, 0, 100)

---------------------------------------------------------------------------
(* Claims about _assess_risk (checked under RiskSpec)                      *)

\* the score the returned factors account for: 2 for high volatility, 1 for
\* every other factor
FactorScore(f) ==
    Len(f) + (IF \E i \in 1..Len(f) : f[i] = "High volatility" THEN 1 ELSE 0)

LevelForScore(sc) ==
    CASE sc >= 4 -> "very_high"
      [] sc = 3  -> "high"
      [] sc = 2  -> "medium"
      [] sc \in {0, 1} -> "low"

AllUndefined(a) ==
    /\ a.volatility_30d = None
    /\ a.rsi_14 = None
    /\ a.above_200_ma = "None"
    /\ a.price_change_30d = None

LevelFromScore(a) ==
    /\ a.risk_level \in Levels
    /\ FactorScore(a.risk_factors) \in 0..5
    /\ a.risk_level = LevelForScore(FactorScore(a.risk_factors))
    /\ AllUndefined(a) => (a.risk_factors = <<>> /\ a.risk_level = "low")

\* C6: for every combination of (possibly undefined) inputs _assess_risk returns
\* exactly one risk level, fixed by the accumulated score in 0..5: >= 4 very
\* high, 3 high, 2 medium, 0 or 1 low; all inputs undefined gives score 0, low.
C6_LevelFromScore ==
    /\ pc \in {"risk_other", "risk_done"} => LevelFromScore(analysis)
    /\ pc = "risk_done" => LevelFromScore(other)

C6_Witness ==
    /\ pc = "risk_done"
    /\ analysis.risk_level = "very_high"
    /\ FactorScore(analysis.risk_factors) = 5
    /\ AllUndefined(other)
    /\ other.risk_level = "low"

\* the rule conditions as the specification states them
VolBand(a) ==
    IF a.volatility_30d # None /\ FGt(a.volatility_30d, Num(50)) THEN 2
    ELSE IF a.volatility_30d # None /\ FGt(a.volatility_30d, Num(30)) THEN 1
    ELSE 0
RsiOverbought(a) == a.rsi_14 # None /\ FGt(a.rsi_14, Num(70))
RsiOversold(a)   == a.rsi_14 # None /\ FLt(a.rsi_14, Num(30))
Below200(a)      == a.above_200_ma \in {"False", "np.False_"}
Declined(a)      == a.price_change_30d # None /\ FLt(a.price_change_30d, Num(-10))

\* b triggers every rule a triggers and at least one more (or a higher
\* volatility band)
TriggersMore(b, a) ==
    /\ VolBand(b) >= VolBand(a)
    /\ (RsiOverbought(a) \/ RsiOversold(a)) => (RsiOverbought(b) \/ RsiOversold(b))
    /\ Below200(a) => Below200(b)
    /\ Declined(a) => Declined(b)
    /\ \/ VolBand(b) > VolBand(a)
       \/ (RsiOverbought(b) \/ RsiOversold(b)) /\ ~(RsiOverbought(a) \/ RsiOversold(a))
       \/ Below200(b) /\ ~Below200(a)
       \/ Declined(b) /\ ~Declined(a)

LevelRank(l) ==
    CASE l = "low" -> 0 [] l = "medium" -> 1 [] l = "high" -> 2 [] l = "very_high" -> 3

\* C7: when a second input triggers every rule the first triggers and at least
\* one more, its risk level is never lower than the first's.
C7_MonotonicLevel ==
    (pc = "risk_done" /\ TriggersMore(other, analysis)) =>
        LevelRank(other.risk_level) >= LevelRank(analysis.risk_level)

ExpectedFactors(a) ==
    (IF VolBand(a) = 2 THEN <<"High volatility">>
     ELSE IF VolBand(a) = 1 THEN <<"Moderate volatility">> ELSE <<>>)
    \o (IF RsiOverbought(a) THEN <<"Overbought">>
        ELSE IF RsiOversold(a) THEN <<"Oversold">> ELSE <<>>)
    \o (IF Below200(a) THEN <<"Below 200-day moving average">> ELSE <<>>)
    \o (IF Declined(a) THEN <<"Significant 30-day decline">> ELSE <<>>)

\* C8: the returned factors are exactly one entry per triggered rule, in rule
\* order, the level is the one of the score 2 (high volatility) + 1 per other
\* triggered rule, and (55, 75, false, -15) gives very high with 4 factors.
\* Stated for a 200-day flag that is None or a Python bool.
C8_FactorPerTriggeredRule ==
    (/\ pc \in {"risk_other", "risk_done"}
     /\ analysis.above_200_ma \in {"None", "True", "False"}) =>
        /\ analysis.risk_factors = ExpectedFactors(analysis)
        /\ analysis.risk_level = LevelForScore(FactorScore(ExpectedFactors(analysis)))
        /\ (/\ analysis.volatility_30d = Num(55)
            /\ analysis.rsi_14 = Num(75)
            /\ analysis.above_200_ma = "False"
            /\ analysis.price_change_30d = Num(-15))
              => (analysis.risk_level = "very_high" /\ Len(analysis.risk_factors) = 4)

---------------------------------------------------------------------------
(* Claims about StockHolding (checked under HoldingSpec)                   *)

\* C10: current_value = shares * current_price, undefined exactly when
\* current_price is absent; total_gain_loss = (current_price - cost_basis) *
\* shares, undefined exactly when either price is absent; gain_loss_percent =
\* (current_price - cost_basis) / cost_basis * 100, undefined exactly when
\* current_price is absent or cost_basis is absent or <= 0.
C10_DerivedValues ==
    LET cp == holding.current_price
        cb == holding.cost_basis
        sh == holding.shares
    IN  pc = "enriched" =>
        /\ current_value(holding) =
              (IF cp = None THEN None ELSE FMul(sh, cp))
        /\ total_gain_loss(holding) =
              (IF cp = None \/ cb = None THEN None ELSE FMul(FSub(cp, cb), sh))
        /\ gain_loss_percent(holding) =
              (IF cp = None \/ cb = None \/ ~FGt(cb, Num(0)) THEN None
               ELSE FMul(FDiv(FSub(cp, cb), cb), Num(100)))

---------------------------------------------------------------------------
(* Claims about Portfolio (checked under PortfolioSpec)                    *)

\* the list hs without its i-th holding
Without(hs, i) == SubSeq(hs, 1, i - 1) \o SubSeq(hs, i + 1, Len(hs))

\* C11: total_value is additive: for every split of the holdings into a list A
\* followed by a list B, total_value(A ++ B) = total_value(A) + total_value(B)
\* (total_cost likewise); a holding with undefined current_value contributes
\* exactly zero to total_value, one without cost_basis zero to total_cost.
C11_AdditiveTotals ==
    pc = "reported" =>
        LET n == Len(portfolio)
        IN  /\ \A k \in 0..n :
                  /\ report.total_value =
                        FAdd(total_value(SubSeq(portfolio, 1, k)),
                             total_value(SubSeq(portfolio, k + 1, n)))
                  /\ report.total_cost =
                        FAdd(total_cost(SubSeq(portfolio, 1, k)),
                             total_cost(SubSeq(portfolio, k + 1, n)))
            /\ \A i \in 1..n :
                  /\ current_value(portfolio[i]) = None =>
                        report.total_value = total_value(Without(portfolio, i))
                  /\ portfolio[i].cost_basis = None =>
                        report.total_cost = total_cost(Without(portfolio, i))
            /\ n = 1 =>
                  report.total_value =
                      (IF current_value(portfolio[1]) = None THEN Num(0)
                       ELSE current_value(portfolio[1]))

\* an undefined value between two defined ones: 1000 + nothing + 3000
C11_Witness ==
    /\ pc = "reported"
    /\ Len(portfolio) = 3
    /\ current_value(portfolio[1]) = Num(1000)
    /\ current_value(portfolio[2]) = None
    /\ current_value(portfolio[3]) = Num(3000)
    /\ portfolio[3].cost_basis # None
    /\ report.total_value = Num(4000)
    /\ report.total_cost = Num(2500)

\* the sum of the percentages of an allocation mapping
AllocationSum(d) == SumRange([j \in 1..Len(d) |-> d[j].val], 1, Len(d))

\* C12: for every list of holdings, when total_value > 0 the percentages of
\* get_allocation sum to 100 and each holding's symbol maps to its
\* current_value / total_value * 100; when total_value = 0 the mapping is empty.
C12_AllocationSumsTo100 ==
    pc = "reported" =>
        /\ FGt(report.total_value, Num(0)) =>
              /\ AllocationSum(report.allocation) = Num(100)
              /\ \A i \in 1..Len(portfolio) :
                    DictGet(report.allocation, portfolio[i].symbol, None) =
                        FMul(FDiv(HoldingValue(portfolio[i]), report.total_value),
                             Num(100))
        /\ report.total_value = Num(0) => report.allocation = <<>>

\* the bucket the specification puts a holding in
SectorOf(h) == IF h.sector = "None" THEN "Unknown" ELSE h.sector

\* the position at which sector key k first appears in hs
FirstAt(hs, k) ==
    CHOOSE i \in 1..Len(hs) :
        SectorOf(hs[i]) = k /\ \A j \in 1..(i - 1) : SectorOf(hs[j]) # k

\* the summed current_value of the holdings of hs in bucket k
RECURSIVE SectorTotal(_, _, _)
SectorTotal(hs, k, i) ==
    IF i > Len(hs) THEN Num(0)
    ELSE FAdd(IF SectorOf(hs[i]) = k /\ current_value(hs[i]) # None
              THEN current_value(hs[i]) ELSE Num(0),
              SectorTotal(hs, k, i + 1))

\* C13: get_sector_allocation holds one key per sector present (no sector =
\* "Unknown"), in order of first appearance, each mapped to the sum of the
\* current_values of its holdings / total_value * 100; the percentages sum to
\* 100 when total_value > 0 and the mapping is empty when total_value = 0.
C13_SectorAllocation ==
    pc = "reported" =>
        LET sa == report.sector_allocation
        IN  /\ report.total_value = Num(0) => sa = <<>>
            /\ FGt(report.total_value, Num(0)) =>
                  /\ {sa[j].key : j \in 1..Len(sa)} =
                        {SectorOf(portfolio[i]) : i \in 1..Len(portfolio)}
                  /\ \A p, q \in 1..Len(sa) :
                        p < q => FirstAt(portfolio, sa[p].key) < FirstAt(portfolio, sa[q].key)
                  /\ \A j \in 1..Len(sa) :
                        sa[j].val =
                            FMul(FDiv(SectorTotal(portfolio, sa[j].key, 1),
                                      report.total_value), Num(100))
                  /\ AllocationSum(sa) = Num(100)

\* Energy first, then a holding without sector, then Technology twice over
C13_Witness ==
    /\ pc = "reported"
    /\ Len(portfolio) = 3
    /\ portfolio[1].sector = "Energy"
    /\ portfolio[2].sector = "None"
    /\ current_value(portfolio[2]) = Num(100)
    /\ portfolio[3].sector = "Technology"
    /\ Len(report.sector_allocation) = 3
    /\ report.sector_allocation[2].key = "Unknown"
    /\ report.sector_allocation[3].key = "Technology"

---------------------------------------------------------------------------
(* Claims about invalid numbers (checked under Spec)                       *)

\* a number, or undefined: neither NaN nor infinite
NumberOrUndefined(x) == x.k \in {"none", "fin", "sqrt"}

\* C14: no percentage or ratio the indicator computation stores is NaN or
\* infinite: for every series, a closing price of 0 included, each price
\* change, the volatility and the RSI is a finite number or undefined.
C14_NoInvalidNumber ==
    Returned =>
        /\ NumberOrUndefined(analysis.price_change_1d)
        /\ NumberOrUndefined(analysis.price_change_7d)
        /\ NumberOrUndefined(analysis.price_change_30d)
        /\ NumberOrUndefined(analysis.volatility_30d)
        /\ NumberOrUndefined(analysis.rsi_14)

---------------------------------------------------------------------------
(* Claims about analyze_sentiment (checked under SentimentSpec)            *)

\* the answer does not have the expected structure: it is not JSON, or it is
\* an object with an unknown label on an article or as the overall one
Malformed(resp) ==
    \/ resp.status = "invalid_json"
    \/ /\ resp.status = "object"
       /\ \/ resp.overall_sentiment \notin SentimentScore \cup {"absent"}
          \/ \E j \in 1..Len(resp.articles) :
                resp.articles[j].sentiment \notin SentimentScore \cup {"absent"}

\* C18: when the answer of the sentiment service is malformed, analyze_sentiment
\* raises nothing, returns overall sentiment and summary undefined and leaves
\* every article unannotated, as when the service call itself fails.
C18_MalformedDiscarded ==
    (pc \in {"sentiment_done", "sentiment_raised"} /\ Malformed(response)) =>
        /\ pc = "sentiment_done"
        /\ sentiment = NoSentiment
        /\ \A j \in 1..Len(articles) : articles[j] = NewsArticle(articles[j].title)

---------------------------------------------------------------------------
(* Claims about analyze_portfolio (checked under PipelineSpec)             *)

\* the position in the log of a call `op` for holding k, 0 if there is none
Pos(op, k) ==
    IF \E p \in 1..Len(calls) : calls[p].op = op /\ calls[p].arg = k
    THEN CHOOSE p \in 1..Len(calls) : calls[p].op = op /\ calls[p].arg = k
    ELSE 0

\* how often the call `op` was made for holding k
Count(op, k) ==
    Cardinality({p \in 1..Len(calls) : calls[p].op = op /\ calls[p].arg = k})

\* a happened, and before b
Before(a, b) == a # 0 /\ (b = 0 \/ a < b)

\* the call that takes a holding through its last stage
LastStage == IF run.include_news THEN "fetch_news" ELSE "analyze_stock"

\* C15: stages are batched and keep list order: every enrichment precedes every
\* indicator pass, every indicator pass precedes every news pass, within a
\* stage the holdings are handled in list order, no holding skips or repeats a
\* stage (the news stage exists only when enabled), the insight step comes
\* after the last stage of every holding, and a run that returns has taken
\* every holding through its last stage.
C15_StagesInOrder ==
    LET H == 1..Len(portfolio)
    IN  /\ \A k \in H :
              /\ Count("enrich_holding", k) <= 1
              /\ Count("analyze_stock", k) <= 1
              /\ Count("fetch_news", k) <= (IF run.include_news THEN 1 ELSE 0)
              /\ Pos("analyze_stock", k) # 0 =>
                    /\ Before(Pos("enrich_holding", k), Pos("analyze_stock", k))
                    /\ \E j \in 1..Len(pa.stock_analyses) :
                          pa.stock_analyses[j].key = portfolio[k].symbol
              /\ Pos("fetch_news", k) # 0 =>
                    Before(Pos("analyze_stock", k), Pos("fetch_news", k))
        /\ \A j, k \in H :
              /\ Pos("analyze_stock", j) # 0 =>
                    Before(Pos("enrich_holding", k), Pos("analyze_stock", j))
              /\ Pos("fetch_news", j) # 0 =>
                    Before(Pos("analyze_stock", k), Pos("fetch_news", j))
              /\ j < k =>
                    \A op \in {"enrich_holding", "analyze_stock", "fetch_news"} :
                        Pos(op, k) # 0 => Before(Pos(op, j), Pos(op, k))
        /\ Pos("generate_portfolio_insights", 0) # 0 =>
              \A k \in H :
                  Before(Pos(LastStage, k), Pos("generate_portfolio_insights", 0))
        /\ pc = "returned" => \A k \in H : Pos(LastStage, k) # 0

\* three holdings, news enabled, the insight step last
C15_Witness ==
    /\ pc = "returned"
    /\ Len(portfolio) = 3
    /\ run.include_news
    /\ ~run.progress_callback
    /\ Len(calls) >= 10
    /\ calls[1].op = "enrich_holding"
    /\ Pos("enrich_holding", 3) < Pos("analyze_stock", 1)
    /\ Pos("analyze_stock", 3) < Pos("fetch_news", 1)
    /\ calls[Len(calls)].op = "generate_portfolio_insights"

\* the steps the progress callback reports
Steps == {"enrich_holding", "analyze_stock", "fetch_news",
          "generate_portfolio_insights"}

\* how many calls among the first p of the log are of the kinds in ops
CountUpTo(ops, p) == Cardinality({q \in 1..p : calls[q].op \in ops})

\* C16 as stated: the progress callback is invoked exactly once per completed
\* step, each invocation after the step it reports has completed, with a
\* counter that starts at 1 and grows by 1 per invocation and the same total
\* every time.
C16_CallbackAfterStep ==
    run.progress_callback =>
        /\ \A p \in 1..Len(calls) :
              calls[p].op = "progress_callback" =>
                  /\ calls[p].step = CountUpTo({"progress_callback"}, p)
                  /\ calls[p].total = run.total_steps
                  /\ CountUpTo(Steps, p) >= calls[p].step
        /\ pc = "returned" =>
              CountUpTo({"progress_callback"}, Len(calls)) = CountUpTo(Steps, Len(calls))

\* C16 as amended: the progress callback is invoked exactly once per step, each
\* invocation immediately before the step it announces runs (so after exactly
\* the earlier steps), with a counter that starts at 1 and grows by 1 per
\* invocation and the same total every time; this holds of every run, also
\* of one that an exception ends.
C16_CallbackBeforeStep ==
    run.progress_callback =>
        /\ \A p \in 1..Len(calls) :
              calls[p].op = "progress_callback" =>
                  /\ calls[p].step = CountUpTo({"progress_callback"}, p)
                  /\ calls[p].total = run.total_steps
                  /\ CountUpTo(Steps, p) = calls[p].step - 1
                  /\ p < Len(calls) /\ calls[p + 1].op \in Steps
        /\ CountUpTo({"progress_callback"}, Len(calls)) = CountUpTo(Steps, Len(calls))
        /\ run.current_step = CountUpTo(Steps, Len(calls))

\* a full run over three holdings: ten steps, ten invocations
C16_Witness ==
    /\ pc = "returned"
    /\ run.progress_callback
    /\ Len(portfolio) = 3
    /\ run.total_steps = 10
    /\ calls[1] = [op |-> "progress_callback", arg |-> 0, step |-> 1, total |-> 10]
    /\ calls[2].op = "enrich_holding"
    /\ CountUpTo({"progress_callback"}, Len(calls)) = 10
    /\ calls[Len(calls)].op = "generate_portfolio_insights"
    /\ calls[Len(calls) - 1].step = 10

\* C17: whatever the collaborators do, analyze_portfolio raises nothing and
\* does not stop early: no exception leaves it, and when it has returned every
\* holding has been enriched, analysed and, if enabled, news-analysed.
C17_NeverAborts ==
    /\ pc # "raised"
    /\ pc = "returned" =>
          \A k \in 1..Len(portfolio) :
              /\ Pos("enrich_holding", k) # 0
              /\ Pos("analyze_stock", k) # 0
              /\ run.include_news => Pos("fetch_news", k) # 0

InsightFieldsUndefined(a) ==
    /\ a.portfolio_summary = "None"
    /\ a.diversification_score = None
    /\ a.risk_score = None
    /\ a.overall_sentiment = "None"
    /\ a.market_outlook = "None"

\* C19: while the insight step has not run the insight fields are undefined;
\* the step leaves every StockAnalysis and every holding as it was, and when
\* the service failed or returned nothing (no answer, not JSON, not an object,
\* an empty object) the insight fields are still undefined after it.
C19_InsightFrame ==
    /\ [](Pos("generate_portfolio_insights", 0) = 0 => InsightFieldsUndefined(pa))
    /\ [][pc = "insights" =>
            /\ pa'.stock_analyses = pa.stock_analyses
            /\ portfolio' = portfolio
            /\ (response'.status # "object" \/ response'.keys = {}) =>
                  InsightFieldsUndefined(pa')]_vars

\* the insight service answered with something that is not JSON
C19_Witness ==
    /\ pc = "returned"
    /\ Pos("generate_portfolio_insights", 0) # 0
    /\ response.status = "invalid_json"
    /\ InsightFieldsUndefined(pa)
    /\ Len(pa.stock_analyses) = 2
    /\ pa.stock_analyses[2].val.risk_level = "low"
    /\ portfolio[1].current_price = Num(100)

---------------------------------------------------------------------------
(* Claims about a failed history fetch (checked under Spec)                *)

\* the indicators that depend on the price history
Dependent(a) ==
    <<a.price_change_1d, a.price_change_7d, a.price_change_30d,
      a.volatility_30d, a.rsi_14, a.above_50_ma, a.above_200_ma>>

---------------------------------------------------------------------------
(* Claims about enrich_holding (checked under HoldingSpec)                 *)

\* the quote came back without "currentPrice" and "regularMarketPrice"
QuoteLacksPrice(q) ==
    q.status = "ok" /\ q.currentPrice = None /\ q.regularMarketPrice = None

\* C21: after enrich_holding every field the quote did not supply is
\* undefined: when the quote has neither a current nor a regular market
\* price, or the fetch fails for a holding that had no price, current_price
\* is undefined and so are current_value, total_gain_loss and
\* gain_loss_percent; a quote without a sector leaves sector undefined.
C21_UnsuppliedIsUndefined ==
    [][pc = "created" =>
          /\ (\/ QuoteLacksPrice(quote')
              \/ (quote'.status = "raise" /\ holding.current_price = None))
                => /\ holding'.current_price = None
                   /\ current_value(holding') = None
                   /\ total_gain_loss(holding') = None
                   /\ gain_loss_percent(holding') = None
          /\ (quote'.status = "ok" /\ quote'.sector = "None")
                => holding'.sector = "None"]_vars

---------------------------------------------------------------------------
(* Claims about risk rules 2 and 3                                         *)

\* how many times the factor f is in the list fs
FactorCount(fs, f) == Cardinality({i \in 1..Len(fs) : fs[i] = f})

\* C26: rule 2 fires for every defined RSI outside [30, 70]: one "Oversold"
\* factor (and one point) for every defined RSI strictly below 30, RSI = 0
\* included, one "Overbought" factor for every RSI strictly above 70, never
\* both, and nothing for an undefined RSI or an RSI in [30, 70].
\* Checked under RiskSpec.
C26_RsiRuleFires ==
    pc \in {"risk_other", "risk_done"} =>
        /\ FactorCount(analysis.risk_factors, "Oversold") =
              (IF RsiOversold(analysis) THEN 1 ELSE 0)
        /\ FactorCount(analysis.risk_factors, "Overbought") =
              (IF RsiOverbought(analysis) THEN 1 ELSE 0)
        /\ ~(/\ FactorCount(analysis.risk_factors, "Oversold") > 0
             /\ FactorCount(analysis.risk_factors, "Overbought") > 0)

\* C27: rule 3 tells false from undefined: the analysis analyze_stock returns
\* carries the factor "Below 200-day moving average" (and its point) exactly
\* when above_200_ma is false, and not when it is true or undefined (fewer
\* than 200 points of history).  Checked under Spec, for series of positive
\* prices.
C27_TrendRuleFires ==
    (Returned /\ ValidSeries(history.close)) =>
        /\ FactorCount(analysis.risk_factors, "Below 200-day moving average") =
              (IF Below200(analysis) THEN 1 ELSE 0)
        /\ Len(history.close) < 200 => analysis.above_200_ma = "None"

---------------------------------------------------------------------------
(* Claims about the moving-average flags (checked under Spec)              *)

\* the sum of the last n prices of the series
RECURSIVE SumLast(_, _)
SumLast(close, n) ==
    IF n = 0 THEN 0 ELSE close[Len(close) + 1 - n] + SumLast(close, n - 1)

FlagIsTrue(f) == f \in {"True", "np.True_"}

FlagIsFalse(f) == f \in {"False", "np.False_"}

\* the flag f is the one the claim gives a series for the window w:
\* last price > mean of the trailing w prices, i.e. w * last > their sum
FlagFor(close, w, f) ==
    /\ (f # "None") <=> (Len(close) >= w)
    /\ Len(close) >= w =>
          /\ FlagIsTrue(f) <=> (w * close[Len(close)] > SumLast(close, w))
          /\ FlagIsFalse(f) <=> (w * close[Len(close)] <= SumLast(close, w))

\* C28: for window in {50, 200} the above-moving-average flag analyze_stock
\* sets is defined iff the series has at least `window` points, and is then
\* true exactly when the last price is strictly greater than the mean of the
\* trailing `window` prices (the last one included); equal gives false.
C28_AboveMovingAverage ==
    Returned =>
        /\ FlagFor(history.close, 50, analysis.above_50_ma)
        /\ FlagFor(history.close, 200, analysis.above_200_ma)

\* a 200-point series whose last price is above the 200-day mean and below
\* the 50-day mean
C28_Witness ==
    /\ Returned
    /\ Len(history.close) = 200
    /\ FlagIsTrue(analysis.above_200_ma)
    /\ FlagIsFalse(analysis.above_50_ma)
    /\ 50 * history.close[200] < SumLast(history.close, 50)

---------------------------------------------------------------------------
(* Claims about the result of analyze_portfolio (checked under             *)
(* PipelineSpec)                                                           *)

\* C25: after analyze_portfolio returns every holding of portfolio.holdings
\* has its own StockAnalysis: the result holds as many records as the
\* portfolio has holdings, one under each holding's symbol.
C25_OneAnalysisPerHolding ==
    pc = "returned" =>
        /\ Len(pa.stock_analyses) = Len(portfolio)
        /\ \A i \in 1..Len(portfolio) :
              \E j \in 1..Len(pa.stock_analyses) :
                  pa.stock_analyses[j].key = portfolio[i].symbol

\* the progress callback invocations of the run, in order
Callbacks == SelectSeq(calls, LAMBDA c : c.op = "progress_callback")

\* C29: for every portfolio and every combination of include_news,
\* include_ai_insights and presence of an API key, the step counter passed
\* to the progress callback never exceeds the total-step count, and when
\* analyze_portfolio returns the callback has been invoked total_steps
\* times, the last time with current_step = total_steps.  The second part
\* is stated for portfolios with at least one holding.
C29_ProgressReachesTotal ==
    /\ \A q \in 1..Len(Callbacks) : Callbacks[q].step <= Callbacks[q].total
    /\ (pc = "returned" /\ run.progress_callback /\ Len(portfolio) > 0) =>
          /\ Len(Callbacks) = run.total_steps
          /\ Callbacks[Len(Callbacks)].step = Callbacks[Len(Callbacks)].total

---------------------------------------------------------------------------
(* analyzer.py: the portfolio loaders.  A CSV row is the record of its     *)
(* three cells as csv.DictReader hands them over, texts; "absent" stands   *)
(* for a column the file does not have, for which row.get gives the        *)
(* default.  The arguments of load_portfolio_from_symbols are lists of     *)
(* floats, given or not.                                                   *)

\* str.strip() on the cells in use
Strip(text) ==
    CASE text = "  "     -> ""
      [] text = " MSFT " -> "MSFT"
      [] text = " 10 "   -> "10"
      [] OTHER           -> text

\* str.upper() on the symbols in use
Upper(text) == IF text = "aapl" THEN "AAPL" ELSE text

\* decimal.InvalidOperation raised by Decimal(text)
InvalidOperation == [k |-> "invalid", n |-> 0, d |-> 1]

\* Decimal(text) on the stripped cells in use
Decimal(text) ==
    CASE text = "10"     -> Num(10)
      [] text = "1"      -> Num(1)
      [] text = "0"      -> Num(0)
      [] text = "-5"     -> Num(-5)
      [] text = "150.00" -> Num(150)
      [] OTHER           -> InvalidOperation

\* the constraint gt=0 of StockHolding.shares with `>=` for `>`
SharesAccepted_NonNegative(shares) == ~FLt(shares, Num(0))

\* the constraint gt=0 of StockHolding.shares (models.py): a value it
\* refuses makes StockHolding(...) raise a ValidationError
SharesAccepted(shares) == FGt(shares, Num(0))

\* one iteration of the loop of load_portfolio_from_csv: the row is skipped,
\* raises, or appends a holding
CsvRow(row) ==
    LET sym    == Upper(Strip(IF row.symbol = "absent" THEN "" ELSE row.symbol))
        cell   == Strip(IF row.shares = "absent" THEN "0" ELSE row.shares)
        shares == Decimal(IF cell = "" THEN "0" ELSE cell)
        cost_basis_str == Strip(IF row.cost_basis = "absent" THEN "" ELSE row.cost_basis)
        cost_basis == IF cost_basis_str # "" THEN Decimal(cost_basis_str) ELSE None
    IN  IF sym = "" THEN [status |-> "skip", holdings |-> <<>>]
        ELSE IF shares = InvalidOperation \/ cost_basis = InvalidOperation
                \/ ~SharesAccepted(shares)
        THEN [status |-> "raise", holdings |-> <<>>]
        ELSE [status |-> "ok",
              holdings |-> <<StockHolding(sym, shares, cost_basis, None)>>]

\* load_portfolio_from_csv: the holdings of the rows in file order, or the
\* exception of the first row that raises
RECURSIVE load_portfolio_from_csv(_)
load_portfolio_from_csv(rs) ==
    IF rs = <<>> THEN [status |-> "ok", holdings |-> <<>>]
    ELSE LET first == CsvRow(Head(rs))
             rest  == load_portfolio_from_csv(Tail(rs))
         IN  IF first.status = "raise" \/ rest.status = "raise"
             THEN [status |-> "raise", holdings |-> <<>>]
             ELSE [status |-> "ok", holdings |-> first.holdings \o rest.holdings]

\* load_portfolio_from_symbols(symbols, shares, cost_basis): a list that is
\* not given, is empty or is too short gives 1 share, and no cost basis
RECURSIVE load_portfolio_from_symbols(_, _, _, _)
load_portfolio_from_symbols(symbols, shares, cost_basis, i) ==
    IF i > Len(symbols) THEN [status |-> "ok", holdings |-> <<>>]
    ELSE LET share_count == IF shares.given /\ i <= Len(shares.list)
                            THEN shares.list[i] ELSE Num(1)
             basis == IF cost_basis.given /\ i <= Len(cost_basis.list)
                      THEN cost_basis.list[i] ELSE None
             rest  == load_portfolio_from_symbols(symbols, shares, cost_basis, i + 1)
         IN  IF ~SharesAccepted(share_count) \/ rest.status = "raise"
             THEN [status |-> "raise", holdings |-> <<>>]
             ELSE [status |-> "ok",
                   holdings |-> <<StockHolding(Upper(symbols[i]), share_count,
                                               basis, None)>> \o rest.holdings]

---------------------------------------------------------------------------
(* LoadSpec: one call of a loader                                          *)

\* most rows of a file, most symbols of a call
MaxRows == 2

CsvRows ==
    {[symbol |-> r[1], shares |-> r[2], cost_basis |-> r[3]] :
        r \in {<<"aapl", "10", "150.00">>, <<" MSFT ", " 10 ", "">>,
               <<"aapl", "1", "0">>, <<"aapl", "10", "absent">>,
               <<"", "abc", "abc">>, <<"  ", "0", "">>,
               <<"aapl", "0", "">>, <<"aapl", "-5", "150.00">>,
               <<"aapl", "", "150.00">>, <<"aapl", "absent", "">>,
               <<"aapl", "abc", "">>, <<"aapl", "10", "abc">>}}

SeqsUpTo(S, n) == UNION {[1..m -> S] : m \in 0..n}

LoadInit ==
    /\ pc = "load"
    /\ NoStockRun
    /\ NoPortfolioRun
    /\ table = [holdings |-> <<>>, analyses |-> <<>>]
    /\ document = [status |-> "none"]
    /\ cache = [newsapi_key |-> FALSE, enabled |-> FALSE, items |-> <<>>]
    /\ rows \in {[loader |-> "csv", file |-> f] : f \in SeqsUpTo(CsvRows, MaxRows)}
            \cup {[loader |-> "symbols", symbols |-> ss, shares |-> sh,
                   cost_basis |-> cb] :
                     ss \in SeqsUpTo({"aapl", "MSFT"}, MaxRows),
                     sh \in {[given |-> FALSE, list |-> <<>>]}
                            \cup {[given |-> TRUE, list |-> l] :
                                     l \in {<<>>, <<Num(10)>>, <<Num(0)>>,
                                            <<Num(10), Num(-5)>>, <<Num(10), Num(1)>>}},
                     cb \in {[given |-> FALSE, list |-> <<>>],
                             [given |-> TRUE, list |-> <<Num(150)>>]}}

LoadPortfolio ==
    /\ pc = "load"
    /\ LET loaded == IF rows.loader = "csv"
                     THEN load_portfolio_from_csv(rows.file)
                     ELSE load_portfolio_from_symbols(rows.symbols, rows.shares,
                                                      rows.cost_basis, 1)
       IN  /\ pc' = IF loaded.status = "ok" THEN "load_returned" ELSE "load_raised"
           /\ portfolio' = loaded.holdings
    /\ UNCHANGED <<ioVars, stockVars, report, pa, run, calls, articles, response,
                   sentiment>>

LoadNext == LoadPortfolio

LoadSpec == LoadInit /\ [][LoadNext]_vars

---------------------------------------------------------------------------
(* Claims about the loaders (checked under LoadSpec)                       *)

\* cells that hold no text
EmptyCells == {"", "  ", "absent"}

\* a shares cell the claim has rejected: missing, non-positive, unparseable
RejectedShares == EmptyCells \cup {"0", "-5"} \cup {"abc"}

\* a cost-basis cell the claim has rejected: unparseable
RejectedCostBasis == {"abc"}

\* the rows of the file that are not skipped for an empty symbol
KeptRows(file) == SelectSeq(file, LAMBDA r : r.symbol \notin EmptyCells)

---------------------------------------------------------------------------
(* dashboard.py: the cells of the rendered tables.  A cell is the marker   *)
(* "N/A", a mark of the moving-average columns, or a number, kept with the *)
(* value that the format string then rounds for display.                   *)

NotAvailable == [kind |-> "N/A", value |-> None]

Number(v) == [kind |-> "number", value |-> v]

format_currency(value) == IF value = None THEN NotAvailable ELSE Number(value)

format_percent(value) == IF value = None THEN NotAvailable ELSE Number(value)

\* the Price, Value, Cost Basis, Gain/Loss, Gain % and Allocation cells of
\* one row of create_holdings_table
create_holdings_table(hs) ==
    [i \in 1..Len(hs) |->
        [symbol     |-> hs[i].symbol,
         price      |-> format_currency(hs[i].current_price),
         value      |-> format_currency(current_value(hs[i])),
         cost_basis |-> IF Truthy(hs[i].cost_basis)
                        THEN format_currency(hs[i].cost_basis) ELSE NotAvailable,
         gain_loss  |-> format_currency(total_gain_loss(hs[i])),
         gain_pct   |-> format_percent(gain_loss_percent(hs[i])),
         allocation |-> Number(DictGet(get_allocation(hs), hs[i].symbol, Num(0)))]]

\* the cells of one row of create_analysis_table; `is False` is identity
\* with the Python singleton
create_analysis_table(analyses) ==
    LET Mark(flag) == IF flag \in {"True", "np.True_"} THEN "yes"
                      ELSE IF flag = "False" THEN "no" ELSE "dash"
    IN  [i \in 1..Len(analyses) |->
            LET a == analyses[i].val IN
            [symbol      |-> analyses[i].key,
             change_1d   |-> format_percent(a.price_change_1d),
             change_7d   |-> format_percent(a.price_change_7d),
             change_30d  |-> format_percent(a.price_change_30d),
             volatility  |-> IF Truthy(a.volatility_30d) THEN Number(a.volatility_30d)
                             ELSE NotAvailable,
             rsi         |-> IF Truthy(a.rsi_14) THEN Number(a.rsi_14)
                             ELSE NotAvailable,
             ma_50       |-> [kind |-> Mark(a.above_50_ma), value |-> None],
             ma_200      |-> [kind |-> Mark(a.above_200_ma), value |-> None]]]

---------------------------------------------------------------------------
(* cli.py and models.py: the saved document.  A JSON value is a record     *)
(* [json, num, text]: json is "null", "true", "false", "number" or         *)
(* "string"; a Decimal is written as the string of its digits, a float as  *)
(* a number.  model_dump(mode="json") writes a non-finite float as null or *)
(* leaves it to json.dump, which writes the constant NaN, depending on the *)
(* pydantic version; it raises for a value of a type it does not know, as  *)
(* numpy.bool_ is.                                                         *)

\* analysis.model_dump(mode='json') for the holdings hs and the analysis a
model_dump(a, hs, inf_nan) ==
    LET Null == [json |-> "null", num |-> None, text |-> ""]
        OfDecimal(x) == IF x = None THEN Null
                        ELSE [json |-> "string", num |-> x, text |-> "digits"]
        OfFloat(x) == IF x = None THEN Null
                      ELSE IF x.k \in {"nan", "pinf", "ninf"} /\ inf_nan = "null" THEN Null
                      ELSE [json |-> "number", num |-> x, text |-> ""]
        OfText(s) == IF s = "None" THEN Null
                     ELSE [json |-> "string", num |-> None, text |-> s]
        OfBool(f) == IF f = "None" THEN Null
                     ELSE [json |-> IF f = "True" THEN "true" ELSE "false",
                           num |-> None, text |-> ""]
        Unknown(s) == s.above_50_ma \in {"np.True_", "np.False_"}
                      \/ s.above_200_ma \in {"np.True_", "np.False_"}
    IN  IF \E i \in 1..Len(a.stock_analyses) : Unknown(a.stock_analyses[i].val)
        THEN [status |-> "raise"]
        ELSE [status |-> "ok",
              holdings |->
                 [i \in 1..Len(hs) |->
                     [symbol            |-> OfText(hs[i].symbol),
                      shares            |-> OfDecimal(hs[i].shares),
                      cost_basis        |-> OfDecimal(hs[i].cost_basis),
                      current_price     |-> OfDecimal(hs[i].current_price),
                      sector            |-> OfText(hs[i].sector),
                      current_value     |-> OfDecimal(current_value(hs[i])),
                      total_gain_loss   |-> OfDecimal(total_gain_loss(hs[i])),
                      gain_loss_percent |-> OfFloat(gain_loss_percent(hs[i]))]],
              stock_analyses |->
                 [i \in 1..Len(a.stock_analyses) |->
                     LET s == a.stock_analyses[i].val IN
                     [key |-> a.stock_analyses[i].key,
                      val |-> [symbol           |-> OfText(s.symbol),
                               price_change_1d  |-> OfFloat(s.price_change_1d),
                               price_change_7d  |-> OfFloat(s.price_change_7d),
                               price_change_30d |-> OfFloat(s.price_change_30d),
                               volatility_30d   |-> OfFloat(s.volatility_30d),
                               rsi_14           |-> OfFloat(s.rsi_14),
                               above_50_ma      |-> OfBool(s.above_50_ma),
                               above_200_ma     |-> OfBool(s.above_200_ma),
                               overall_sentiment |-> OfText(s.overall_sentiment),
                               sentiment_summary |-> OfText(s.sentiment_summary),
                               risk_level       |-> OfText(s.risk_level),
                               news_articles    |-> s.news_articles,
                               risk_factors     |-> s.risk_factors]]],
              portfolio_summary     |-> OfText(a.portfolio_summary),
              diversification_score |-> OfFloat(a.diversification_score),
              risk_score            |-> OfFloat(a.risk_score),
              overall_sentiment     |-> OfText(a.overall_sentiment),
              market_outlook        |-> OfText(a.market_outlook),
              strengths             |-> a.strengths,
              weaknesses            |-> a.weaknesses,
              recommendations       |-> a.recommendations]

\* PortfolioAnalysis.model_validate(document): the declared fields are read
\* by their types, the computed fields of the document are ignored; the
\* result is the pair of the holdings and the analysis
model_validate(doc) ==
    LET ToNumber(j) == IF j.json = "null" THEN None ELSE j.num
        ToText(j) == IF j.json = "null" THEN "None" ELSE j.text
        ToBool(j) == IF j.json = "null" THEN "None"
                     ELSE IF j.json = "true" THEN "True" ELSE "False"
    IN  [holdings |->
            [i \in 1..Len(doc.holdings) |->
                [symbol        |-> ToText(doc.holdings[i].symbol),
                 shares        |-> ToNumber(doc.holdings[i].shares),
                 cost_basis    |-> ToNumber(doc.holdings[i].cost_basis),
                 current_price |-> ToNumber(doc.holdings[i].current_price),
                 sector        |-> ToText(doc.holdings[i].sector)]],
         analysis |->
            [stock_analyses |->
                [i \in 1..Len(doc.stock_analyses) |->
                    LET s == doc.stock_analyses[i].val IN
                    [key |-> doc.stock_analyses[i].key,
                     val |-> [symbol           |-> ToText(s.symbol),
                              price_change_1d  |-> ToNumber(s.price_change_1d),
                              price_change_7d  |-> ToNumber(s.price_change_7d),
                              price_change_30d |-> ToNumber(s.price_change_30d),
                              volatility_30d   |-> ToNumber(s.volatility_30d),
                              rsi_14           |-> ToNumber(s.rsi_14),
                              above_50_ma      |-> ToBool(s.above_50_ma),
                              above_200_ma     |-> ToBool(s.above_200_ma),
                              news_articles    |-> s.news_articles,
                              overall_sentiment |-> ToText(s.overall_sentiment),
                              sentiment_summary |-> ToText(s.sentiment_summary),
                              risk_level       |-> ToText(s.risk_level),
                              risk_factors     |-> s.risk_factors]]],
             portfolio_summary     |-> ToText(doc.portfolio_summary),
             diversification_score |-> ToNumber(doc.diversification_score),
             risk_score            |-> ToNumber(doc.risk_score),
             overall_sentiment     |-> ToText(doc.overall_sentiment),
             strengths             |-> doc.strengths,
             weaknesses            |-> doc.weaknesses,
             recommendations       |-> doc.recommendations,
             market_outlook        |-> ToText(doc.market_outlook)]]

---------------------------------------------------------------------------
(* ReportSpec: the analyze command for a portfolio of one holding, run     *)
(* without news and without AI insights: the analysis, the report on the   *)
(* terminal, the saved document.  pc is "cli_loaded", "cli_analyzed",      *)
(* "cli_displayed", then "cli_saved" or, when saving raised, "cli_raised". *)

ReportInit ==
    /\ pc = "cli_loaded"
    /\ NoStockRun
    /\ NoIo
    /\ portfolio \in {<<StockHolding(sym, Num(10), cb, None)>> :
                         sym \in Symbols, cb \in {None, Num(0), Num(50)}}
    /\ report = NoReport
    /\ pa = PortfolioAnalysis
    /\ run = NoRun
    /\ calls = <<>>
    /\ articles = <<>>
    /\ response = NoResponse
    /\ sentiment = NoSentiment

\* cli.py 143-147: analyze_portfolio enriches and analyzes the holding; the
\* quote fetch fails, gives no price or a price of 100, the history fetch
\* fails, gives nothing, or gives a series of up to 50 closes
RunAnalysis ==
    /\ pc = "cli_loaded"
    /\ \E q \in {x \in Quotes :
                    \/ x.status = "raise"
                    \/ /\ x.currentPrice \in {None, Num(100)}
                       /\ x.regularMarketPrice = None
                       /\ x.sector = "Technology"},
          h \in {x \in Histories :
                    \/ x.status = "raise"
                    \/ x.close \in {<<>>, <<10, 11>>,
                                    Series(15, 20, 11, 10, 1),
                                    Series(31, 20, 10, 11, 7),
                                    Series(50, 10, 10, 10, 0),
                                    Series(50, 10, 10, 11, 0),
                                    Series(50, 11, 11, 10, 0)}} :
          /\ portfolio' = <<enrich_holding(portfolio[1], q)>>
          /\ pa' = [pa EXCEPT !.stock_analyses =
                       DictSet(@, portfolio[1].symbol,
                               analyze_stock(portfolio[1].symbol, h))]
          /\ quote' = q
          /\ history' = h
    /\ pc' = "cli_analyzed"
    /\ UNCHANGED <<ioVars, symbol, analysis, other, holding, report, run, calls,
                   articles, response, sentiment>>

\* cli.py 152: display_full_report
DisplayReport ==
    /\ pc = "cli_analyzed"
    /\ table' = [holdings |-> create_holdings_table(portfolio),
                 analyses |-> create_analysis_table(pa.stock_analyses)]
    /\ pc' = "cli_displayed"
    /\ UNCHANGED <<stockVars, portfolioVars, rows, document, cache>>

\* cli.py 155-160: the document is written when --output-json is given
SaveJson ==
    /\ pc = "cli_displayed"
    /\ \E inf_nan \in {"null", "constants"} :
          document' = model_dump(pa, portfolio, inf_nan)
    /\ pc' = IF document'.status = "raise" THEN "cli_raised" ELSE "cli_saved"
    /\ UNCHANGED <<stockVars, portfolioVars, rows, table, cache>>

ReportNext == RunAnalysis \/ DisplayReport \/ SaveJson

ReportSpec == ReportInit /\ [][ReportNext]_vars

---------------------------------------------------------------------------
(* Claims about the report and the saved document (checked under          *)
(* ReportSpec)                                                             *)

\* the cell shows the marker exactly when the metric is undefined, and the
\* metric's number otherwise
ShownAs(cell, v) ==
    /\ (cell.kind = "N/A") <=> (v = None)
    /\ v # None => cell = [kind |-> "number", value |-> v]

\* fetch_stock_info delivered a price for the holding
PriceObtained ==
    quote.status = "ok"
        /\ (quote.currentPrice # None \/ quote.regularMarketPrice # None)

\* the mark of a moving-average column for a flag
MarkFor(flag) ==
    IF flag = "None" THEN "dash" ELSE IF FlagIsTrue(flag) THEN "yes" ELSE "no"

\* C23: in the rendered report zero and unavailable are never conflated:
\* every undefined metric (a price, value or allocation that could not be
\* obtained included) is shown with the not-available marker, and every
\* defined metric, a value of exactly 0 included (volatility 0, RSI 0), is
\* shown as a number.
C23_ZeroIsNotUnavailable ==
    pc = "cli_displayed" =>
        LET a == pa.stock_analyses[1].val
            r == table.analyses[1]
            h == table.holdings[1]
        IN  /\ ShownAs(r.change_1d, a.price_change_1d)
            /\ ShownAs(r.change_7d, a.price_change_7d)
            /\ ShownAs(r.change_30d, a.price_change_30d)
            /\ ShownAs(r.volatility, a.volatility_30d)
            /\ ShownAs(r.rsi, a.rsi_14)
            /\ r.ma_50.kind = MarkFor(a.above_50_ma)
            /\ r.ma_200.kind = MarkFor(a.above_200_ma)
            /\ (h.price.kind = "N/A") <=> ~PriceObtained
            /\ (h.value.kind = "N/A") <=> ~PriceObtained
            /\ (h.allocation.kind = "N/A") <=> ~PriceObtained
            /\ ShownAs(h.cost_basis, portfolio[1].cost_basis)

\* C24: serializing a PortfolioAnalysis to the JSON document and
\* deserializing it back gives a PortfolioAnalysis equal to the original in
\* every field of the analysis, of its holdings and of each StockAnalysis,
\* and every undefined field is in the document as an explicit null.
C24_JsonRoundTrip ==
    pc \in {"cli_saved", "cli_raised"} =>
        /\ pc = "cli_saved"
        /\ model_validate(document).holdings = portfolio
        /\ model_validate(document).analysis = pa
        /\ \A i \in 1..Len(portfolio) :
              /\ (portfolio[i].cost_basis = None)
                    <=> (document.holdings[i].cost_basis.json = "null")
              /\ (portfolio[i].current_price = None)
                    <=> (document.holdings[i].current_price.json = "null")
        /\ \A i \in 1..Len(pa.stock_analyses) :
              LET s == pa.stock_analyses[i].val
                  j == document.stock_analyses[i].val
              IN  /\ (s.volatility_30d = None) <=> (j.volatility_30d.json = "null")
                  /\ (s.rsi_14 = None) <=> (j.rsi_14.json = "null")
                  /\ (s.above_50_ma = "None") <=> (j.above_50_ma.json = "null")
                  /\ (s.risk_level = "None") <=> (j.risk_level.json = "null")

---------------------------------------------------------------------------
(* sentiment.py: NewsFetcher.fetch_news.  self._cache is None when caching *)
(* is disabled and a diskcache.Cache otherwise, a sized container, so that *)
(* `if self._cache` is false for an empty cache as well.  The cache is a   *)
(* directory on disk that outlives the process; its items are kept as the  *)
(* dict of [key, val] with the symbol standing for the key "news_<symbol>".*)
(* Entries are read within their time to live.                             *)

\* settings.sentiment_news_count, 5 by default
sentiment_news_count == 2

\* the first n articles of a list: articles[:n]
Truncated(arts, n) == SubSeq(arts, 1, IF Len(arts) < n THEN Len(arts) ELSE n)

\* fetch_news(symbol) for a fetcher f, when NewsAPI answers with the list
\* newsapi and yfinance has the list yfinance (an empty list also stands for
\* a failed request, which both helpers turn into []): what is returned and
\* the items of the cache afterwards
fetch_news(f, sym, newsapi, yfinance) ==
    LET enabled == f.enabled /\ Len(f.items) > 0
        cached  == DictGet(f.items, sym, <<>>)
        first   == IF f.newsapi_key THEN newsapi ELSE <<>>
        arts    == IF first = <<>> THEN Truncated(yfinance, sentiment_news_count)
                   ELSE first
    IN  IF enabled /\ cached # <<>> THEN [returned |-> cached, items |-> f.items]
        ELSE [returned |-> Truncated(arts, sentiment_news_count),
              items |-> IF enabled /\ arts # <<>> THEN DictSet(f.items, sym, arts)
                        ELSE f.items]

---------------------------------------------------------------------------
(* NewsSpec: two calls of fetch_news for one symbol.  pc is "news_idle",   *)
(* "news_first" after the first call, "news_second" after the second.      *)

\* what a source can deliver: up to one article more than asked for
Delivered ==
    LET titles == <<"a0", "a1", "a2", "a3", "a4", "a5">>
    IN  {[i \in 1..n |-> NewsArticle(titles[i])] : n \in 0..(sentiment_news_count + 1)}

NewsInit ==
    /\ pc = "news_idle"
    /\ symbol \in Symbols
    /\ history = NoHistory
    /\ analysis = StockAnalysis("")
    /\ other = StockAnalysis("")
    /\ holding = NoHolding
    /\ quote = NoQuote
    /\ NoPortfolioRun
    /\ rows = [loader |-> "none"]
    /\ table = [holdings |-> <<>>, analyses |-> <<>>]
    /\ document = [status |-> "none"]
    /\ cache \in {[newsapi_key |-> k, enabled |-> e, items |-> it] :
                     k \in BOOLEAN, e \in BOOLEAN,
                     it \in {<<>>, <<[key |-> "XOM", val |-> <<NewsArticle("x0")>>]>>}}

FetchNews ==
    /\ pc \in {"news_idle", "news_first"}
    /\ \E newsapi \in Delivered, yfinance \in Delivered :
          LET res == fetch_news(cache, symbol, newsapi, yfinance)
          IN  /\ articles' = res.returned
              /\ cache' = [cache EXCEPT !.items = res.items]
    /\ pc' = IF pc = "news_idle" THEN "news_first" ELSE "news_second"
    /\ UNCHANGED <<stockVars, portfolio, report, pa, run, calls, response, sentiment,
                   rows, table, document>>

NewsNext == FetchNews

NewsSpec == NewsInit /\ [][NewsNext]_vars

---------------------------------------------------------------------------
(* Claims about fetch_news (checked under NewsSpec)                        *)

\* the next call finds the symbol's entry in the cache
CacheHit == cache.enabled /\ DictGet(cache.items, symbol, <<>>) # <<>>

=============================================================================
